---- MODULE Spec2Model ----
(***************************************************************************)
(* A model of match_records.py: the text normalisation, the file-name      *)
(* decoders, the containment match of PDF file names against CSV records,  *)
(* the per-journal partition files and the final merge of the partitions.  *)
(*                                                                         *)
(* Texts are sequences of one-character strings.  A character outside      *)
(* ASCII is written as its code point ("U+212A").  A CSV record is a       *)
(* function from column names to texts, a Python dict; a Python dict that  *)
(* is iterated is a sequence of entries in insertion order.  Python's      *)
(* 0-based record index idx is the 1-based position idx + 1 here.          *)
(***************************************************************************)
EXTENDS Naturals, Sequences, FiniteSets, TLC

VARIABLES
    pc,                  \* position of main() / process_journal()
    journals_to_process, \* main: the journals, in processing order
    ji,                  \* main: position of the loop over journals_to_process
    doi_journals,        \* main: --doi-journals, upper-cased
    special_journals,    \* main: --special-journals, upper-cased
    directory,           \* process_journal: the entries of the journal's PDF directory
    records,             \* process_journal: the rows read from the CSV
    headers,             \* process_journal: the header of the CSV
    pdf_files,           \* process_journal: ordered dict name -> path
    pattern,             \* process_journal: [has_year, use_doi, special_encoding]
    matched,             \* result of match_pdfs_to_records: <<[idx, path]>>
    unmatched,           \* result of match_pdfs_to_records: <<idx>>
    multi_matched,       \* result of match_pdfs_to_records: <<[idx, paths]>>
    disk,                \* the output directory: the partition files and the merged files
    all_stats,           \* main: the set of [journal, status]
    matched_dois,        \* main: the DOIs collected from ALL_MATCHED.csv
    call,                \* a call of one function: [fn, text, flag, files, records]
    result,              \* what the call returned
    max_retries,         \* wait_for_completion: the limit of the polling loop
    polls,               \* wait_for_completion: the status calls made so far
    files_status,        \* wait_for_completion: file name -> status
    status_info,         \* wait_for_completion: what the last status call gave
    files_to_process,    \* process_all: the number of files still to be converted
    batch_size,          \* process_all_async: the number of tasks of one batch
    batch_start,         \* process_all: the files before this position have been taken
    task,                \* process_all: position of each file's conversion and its outcome
    stats                \* process_all: [success, failed]

vars == <<pc, journals_to_process, ji, doi_journals, special_journals, directory,
          records, headers, pdf_files, pattern,
          matched, unmatched, multi_matched, disk, all_stats, matched_dois,
          call, result,
          max_retries, polls, files_status, status_info,
          files_to_process, batch_size, batch_start, task, stats>>

---------------------------------------------------------------------------
(* Bounds of the model.                                                    *)

MaxRows == 2
MaxFiles == 2
MaxSources == 2

---------------------------------------------------------------------------
(* Sequences and texts.                                                    *)

Range(s) == {s[i] : i \in 1..Len(s)}

\* The sequences over S of length at most n without a repeated element.
InjSeqs(S, n) ==
    {s \in UNION {[1..k -> S] : k \in 0..n} :
        \A i, j \in 1..Len(s) : i # j => s[i] # s[j]}

SeqsUpTo(S, n) == UNION {[1..k -> S] : k \in 0..n}

\* str.startswith
StartsWith(text, prefix) ==
    /\ Len(prefix) <= Len(text)
    /\ \A i \in 1..Len(prefix) : text[i] = prefix[i]

\* dict.get(column, "")
Get(record, column) == IF column \in DOMAIN record THEN record[column] ELSE <<>>

UpperLetters ==
    <<"A", "B", "C", "D", "E", "F", "G", "H", "I", "J", "K", "L", "M",
      "N", "O", "P", "Q", "R", "S", "T", "U", "V", "W", "X", "Y", "Z">>

LowerLetters ==
    <<"a", "b", "c", "d", "e", "f", "g", "h", "i", "j", "k", "l", "m",
      "n", "o", "p", "q", "r", "s", "t", "u", "v", "w", "x", "y", "z">>

AsciiDigits == {"0", "1", "2", "3", "4", "5", "6", "7", "8", "9"}

HexDigits == AsciiDigits \cup {"a", "b", "c", "d", "e", "f", "A", "B", "C", "D", "E", "F"}

\* \d of a str pattern also matches the decimal digits outside ASCII
\* (U+0663 is ARABIC-INDIC DIGIT THREE).
ReDigits == AsciiDigits \cup {"U+0663"}

\* str.lower of one character: a text, since U+0130 lowers to two characters
\* and U+212A (KELVIN SIGN) lowers to "k".
AZ == Range(LowerLetters)

UpperAZ == Range(UpperLetters)

LowerOf == [c \in UpperAZ |-> LowerLetters[CHOOSE i \in 1..26 : UpperLetters[i] = c]]

LowerChar(c) ==
    IF c \in UpperAZ THEN <<LowerOf[c]>>
    ELSE IF c = "U+212A" THEN <<"k">>
    ELSE IF c = "U+0130" THEN <<"i", "U+0307">>
    ELSE <<c>>

RECURSIVE str_lower(_)
str_lower(text) ==
    IF text = <<>> THEN <<>> ELSE LowerChar(Head(text)) \o str_lower(Tail(text))

IsAZ(c) == c \in AZ

IsAZ09(c) == c \in AZ \/ c \in AsciiDigits

\* A variant of normalize_text whose re.sub removes one character only.
RECURSIVE RemoveFirst(_, _)
RemoveFirst(text, kept) ==
    IF text = <<>> THEN <<>>
    ELSE IF Head(text) \in kept THEN <<Head(text)>> \o RemoveFirst(Tail(text), kept)
    ELSE Tail(text)

normalize_text_SubOnce(text, remove_numbers) ==
    IF text = <<>> THEN <<>>
    ELSE IF remove_numbers
         THEN RemoveFirst(str_lower(text), AZ)
         ELSE RemoveFirst(str_lower(text), AZ \cup AsciiDigits)

\* A variant of normalize_text without text.lower().
normalize_text_NoLower(text, remove_numbers) ==
    IF text = <<>> THEN <<>>
    ELSE IF remove_numbers
         THEN SelectSeq(text, IsAZ)
         ELSE SelectSeq(text, IsAZ09)

normalize_text(text, remove_numbers) ==
    IF text = <<>> THEN <<>>
    ELSE IF remove_numbers
         THEN SelectSeq(str_lower(text), IsAZ)
         ELSE SelectSeq(str_lower(text), IsAZ09)

\* The position after the longest run of hex digits that starts at i.
RECURSIVE HexRunEnd(_, _)
HexRunEnd(s, i) ==
    IF i <= Len(s) /\ s[i] \in HexDigits THEN HexRunEnd(s, i + 1) ELSE i

\* re.sub(r'#x[0-9a-fA-F]+;', '', s) from position i on.
RECURSIVE RemoveEncodingFrom(_, _)
RemoveEncodingFrom(s, i) ==
    IF i > Len(s) THEN <<>>
    ELSE LET e == HexRunEnd(s, i + 2)
         IN  IF /\ s[i] = "#"
                /\ i + 1 <= Len(s)
                /\ s[i + 1] = "x"
                /\ e > i + 2
                /\ e <= Len(s)
                /\ s[e] = ";"
             THEN RemoveEncodingFrom(s, e + 1)
             ELSE <<s[i]>> \o RemoveEncodingFrom(s, i + 1)

\* A variant of remove_isr_encoding for the pattern '#x[0-9a-fA-F]*;', which
\* takes '#x;' too.
RECURSIVE RemoveEncodingOrEmptyFrom(_, _)
RemoveEncodingOrEmptyFrom(s, i) ==
    IF i > Len(s) THEN <<>>
    ELSE LET e == HexRunEnd(s, i + 2)
         IN  IF /\ s[i] = "#"
                /\ i + 1 <= Len(s)
                /\ s[i + 1] = "x"
                /\ e <= Len(s)
                /\ s[e] = ";"
             THEN RemoveEncodingOrEmptyFrom(s, e + 1)
             ELSE <<s[i]>> \o RemoveEncodingOrEmptyFrom(s, i + 1)

remove_isr_encoding_EmptyRun(filename) == RemoveEncodingOrEmptyFrom(filename, 1)

remove_isr_encoding(filename) == RemoveEncodingFrom(filename, 1)

\* r'_(\d{4})_' matches at position i.
YearInside(s, i) ==
    /\ i + 5 <= Len(s)
    /\ s[i] = "_"
    /\ \A k \in 1..4 : s[i + k] \in ReDigits
    /\ s[i + 5] = "_"

\* r'_(\d{4})$' matches at position i: $ is the end of the text, or the
\* position before a newline that ends the text.
YearAtEnd(s, i) ==
    /\ i + 4 <= Len(s)
    /\ s[i] = "_"
    /\ \A k \in 1..4 : s[i + k] \in ReDigits
    /\ \/ i + 4 = Len(s)
       \/ i + 5 = Len(s) /\ s[i + 5] = "\n"

\* pdf_name[:match.start()] for the leftmost match.
PrefixBeforeFirst(s, P(_, _)) ==
    LET i == CHOOSE k \in 1..Len(s) : P(s, k) /\ \A m \in 1..(k - 1) : ~P(s, m)
    IN  SubSeq(s, 1, i - 1)

extract_title_from_pdf_name(pdf_name, has_year_pattern) ==
    IF has_year_pattern /\ \E i \in 1..Len(pdf_name) : YearInside(pdf_name, i)
    THEN PrefixBeforeFirst(pdf_name, YearInside)
    ELSE IF has_year_pattern /\ \E i \in 1..Len(pdf_name) : YearAtEnd(pdf_name, i)
    THEN PrefixBeforeFirst(pdf_name, YearAtEnd)
    ELSE pdf_name

DoiPrefix == <<"1", "0", ".", "1", "1", "1", "1", "/">>

\* A variant of extract_doi_from_pdf_name that knows the prefix 'isj.' only.
extract_doi_IsjOnly(pdf_name) ==
    IF StartsWith(pdf_name, <<"i", "s", "j", ".">>) THEN DoiPrefix \o pdf_name
    ELSE pdf_name

extract_doi_from_pdf_name(pdf_name) ==
    IF StartsWith(pdf_name, <<"i", "s", "j", ".">>) THEN DoiPrefix \o pdf_name
    ELSE IF StartsWith(pdf_name, <<"j", ".", "1", "3", "6", "5", "-", "2", "5", "7", "5">>)
    THEN DoiPrefix \o pdf_name
    ELSE IF StartsWith(pdf_name, <<"1", "0", ".">>) THEN pdf_name
    ELSE pdf_name

---------------------------------------------------------------------------
(* match_pdfs_to_records.                                                  *)

\* The text of a file name that is compared, normalised (lines 296-309).
MatchKey(pdf_name, use_doi_matching, use_special_encoding, has_year_pattern) ==
    IF use_doi_matching
    THEN normalize_text(extract_doi_from_pdf_name(pdf_name), FALSE)
    ELSE LET processed_name ==
                 IF use_special_encoding THEN remove_isr_encoding(pdf_name) ELSE pdf_name
             title_part == extract_title_from_pdf_name(processed_name, has_year_pattern)
         IN  normalize_text(title_part, TRUE)

\* A variant of AddToMap that puts a file in front of the files of its key.
AddToMap_Prepend(map, normalized, item) ==
    IF \E i \in 1..Len(map) : map[i].key = normalized
    THEN LET i == CHOOSE k \in 1..Len(map) : map[k].key = normalized
         IN  [map EXCEPT ![i].items = <<item>> \o @]
    ELSE Append(map, [key |-> normalized, items |-> <<item>>])

\* pdf_normalized_map[normalized].append((pdf_name, pdf_path)); the map is a
\* dict, here the sequence of its entries [key, items] in insertion order.
AddToMap(map, normalized, item) ==
    IF \E i \in 1..Len(map) : map[i].key = normalized
    THEN LET i == CHOOSE k \in 1..Len(map) : map[k].key = normalized
         IN  [map EXCEPT ![i].items = Append(@, item)]
    ELSE Append(map, [key |-> normalized, items |-> <<item>>])

RECURSIVE BuildNormalizedMap(_, _, _, _, _)
BuildNormalizedMap(files, map, use_doi_matching, use_special_encoding, has_year_pattern) ==
    IF files = <<>> THEN map
    ELSE BuildNormalizedMap(
             Tail(files),
             AddToMap(map,
                      MatchKey(Head(files).name, use_doi_matching,
                               use_special_encoding, has_year_pattern),
                      Head(files)),
             use_doi_matching, use_special_encoding, has_year_pattern)

\* A variant of KeyMatches: either text may start the other.
KeyMatches_Symmetric(pdf_normalized, record_normalized) ==
    /\ pdf_normalized # <<>>
    /\ \/ StartsWith(record_normalized, pdf_normalized)
       \/ StartsWith(pdf_normalized, record_normalized)

\* The test of line 341.
KeyMatches(pdf_normalized, record_normalized) ==
    pdf_normalized # <<>> /\ StartsWith(record_normalized, pdf_normalized)

\* The paths of one entry of the map, in the order of its list (line 342).
RECURSIVE PathsOf(_)
PathsOf(items) ==
    IF items = <<>> THEN <<>> ELSE <<Head(items).path>> \o PathsOf(Tail(items))

\* A variant of MatchingPdfs: only the files of the longest matching key.
RECURSIVE LongestMatch(_, _, _)
LongestMatch(map, record_normalized, best) ==
    IF map = <<>> THEN best
    ELSE LongestMatch(Tail(map), record_normalized,
                      IF /\ KeyMatches(Head(map).key, record_normalized)
                         /\ (best = <<>> \/ Len(Head(map).key) > Len(best[1].key))
                      THEN <<Head(map)>> ELSE best)

MatchingPdfs_LongestKey(map, record_normalized) ==
    IF LongestMatch(map, record_normalized, <<>>) = <<>> THEN <<>>
    ELSE PathsOf(LongestMatch(map, record_normalized, <<>>)[1].items)

\* matching_pdfs after the loop of lines 339-342.
RECURSIVE MatchingPdfs(_, _)
MatchingPdfs(map, record_normalized) ==
    IF map = <<>> THEN <<>>
    ELSE (IF KeyMatches(Head(map).key, record_normalized)
          THEN PathsOf(Head(map).items) ELSE <<>>)
         \o MatchingPdfs(Tail(map), record_normalized)

RecordNormalized(column_value, use_doi_matching) ==
    IF use_doi_matching
    THEN normalize_text(column_value, FALSE)
    ELSE normalize_text(column_value, TRUE)

\* A variant of MatchRecord without the continue of line 324: a row with an
\* empty value is listed as unmatched and then classified again.
MatchRecord_NoContinue(res, idx, record, map, match_column, use_doi_matching) ==
    LET column_value == Get(record, match_column)
        matching_pdfs ==
            MatchingPdfs(map, RecordNormalized(column_value, use_doi_matching))
        first == IF column_value = <<>>
                 THEN [res EXCEPT !.unmatched = Append(@, idx)] ELSE res
    IN  IF Len(matching_pdfs) = 0
        THEN [first EXCEPT !.unmatched = Append(@, idx)]
        ELSE IF Len(matching_pdfs) = 1
        THEN [first EXCEPT !.matched = Append(@, [idx |-> idx, path |-> matching_pdfs[1]])]
        ELSE [first EXCEPT !.multi_matched =
                               Append(@, [idx |-> idx, paths |-> matching_pdfs])]

\* One turn of the loop over the records (lines 318-353): res is
\* [matched, unmatched, multi_matched] so far.
MatchRecord(res, idx, record, map, match_column, use_doi_matching) ==
    LET column_value == Get(record, match_column)
        matching_pdfs ==
            MatchingPdfs(map, RecordNormalized(column_value, use_doi_matching))
    IN  IF column_value = <<>>
        THEN [res EXCEPT !.unmatched = Append(@, idx)]
        ELSE IF Len(matching_pdfs) = 0
        THEN [res EXCEPT !.unmatched = Append(@, idx)]
        ELSE IF Len(matching_pdfs) = 1
        THEN [res EXCEPT !.matched = Append(@, [idx |-> idx, path |-> matching_pdfs[1]])]
        ELSE [res EXCEPT !.multi_matched =
                             Append(@, [idx |-> idx, paths |-> matching_pdfs])]

RECURSIVE MatchLoop(_, _, _, _, _, _)
MatchLoop(res, idx, recs, map, match_column, use_doi_matching) ==
    IF idx > Len(recs) THEN res
    ELSE MatchLoop(MatchRecord(res, idx, recs[idx], map, match_column, use_doi_matching),
                   idx + 1, recs, map, match_column, use_doi_matching)

match_pdfs_to_records(files, recs, match_column, use_doi_matching, use_special_encoding, has_year_pattern) ==
    MatchLoop([matched |-> <<>>, unmatched |-> <<>>, multi_matched |-> <<>>],
              1, recs,
              BuildNormalizedMap(files, <<>>, use_doi_matching,
                                 use_special_encoding, has_year_pattern),
              match_column, use_doi_matching)

---------------------------------------------------------------------------
(* process_journal: loading, the duplicate checks, the partition files.    *)

PdfSuffix == <<".", "p", "d", "f">>

UpperOf == [c \in AZ |-> UpperLetters[CHOOSE i \in 1..26 : LowerLetters[i] = c]]

\* str.upper and str.lower of the ASCII texts that name journals and suffixes.
RECURSIVE str_upper(_)
str_upper(text) ==
    IF text = <<>> THEN <<>>
    ELSE <<IF Head(text) \in AZ THEN UpperOf[Head(text)] ELSE Head(text)>>
             \o str_upper(Tail(text))

\* JOURNAL_PATTERNS (lines 581-593).
JOURNAL_PATTERNS ==
    {[name |-> <<"D", "S", "S">>, has_year |-> TRUE, use_doi |-> FALSE, special_encoding |-> FALSE],
     [name |-> <<"E", "J", "I", "S">>, has_year |-> TRUE, use_doi |-> FALSE, special_encoding |-> FALSE],
     [name |-> <<"I", "M">>, has_year |-> TRUE, use_doi |-> FALSE, special_encoding |-> FALSE],
     [name |-> <<"I", "O">>, has_year |-> TRUE, use_doi |-> FALSE, special_encoding |-> FALSE],
     [name |-> <<"J", "S", "I", "S">>, has_year |-> TRUE, use_doi |-> FALSE, special_encoding |-> FALSE],
     [name |-> <<"J", "I", "T">>, has_year |-> TRUE, use_doi |-> FALSE, special_encoding |-> FALSE],
     [name |-> <<"I", "S", "J">>, has_year |-> FALSE, use_doi |-> TRUE, special_encoding |-> FALSE],
     [name |-> <<"I", "S", "R">>, has_year |-> FALSE, use_doi |-> FALSE, special_encoding |-> TRUE],
     [name |-> <<"J", "A", "I", "S">>, has_year |-> FALSE, use_doi |-> FALSE, special_encoding |-> FALSE],
     [name |-> <<"J", "M", "I", "S">>, has_year |-> FALSE, use_doi |-> FALSE, special_encoding |-> FALSE],
     [name |-> <<"M", "I", "S", "Q">>, has_year |-> FALSE, use_doi |-> FALSE, special_encoding |-> FALSE]}

PatternOf(e) ==
    [has_year |-> e.has_year, use_doi |-> e.use_doi, special_encoding |-> e.special_encoding]

get_journal_pattern(journal_name, doi_js, special_js) ==
    LET journal_upper == str_upper(journal_name)
        base == IF \E e \in JOURNAL_PATTERNS : e.name = journal_upper
                THEN PatternOf(CHOOSE e \in JOURNAL_PATTERNS : e.name = journal_upper)
                ELSE [has_year |-> TRUE, use_doi |-> FALSE, special_encoding |-> FALSE]
        with_doi == IF journal_upper \in {str_upper(j) : j \in doi_js}
                    THEN [base EXCEPT !.use_doi = TRUE] ELSE base
    IN  IF journal_upper \in {str_upper(j) : j \in special_js}
        THEN [with_doi EXCEPT !.special_encoding = TRUE] ELSE with_doi

\* get_pdf_files: the entries of the directory that are files with the
\* suffix .pdf in any case, keyed by their stem; a stem seen again keeps its
\* place in the dict and takes the later path. An exception while the
\* directory is read is caught (lines 163-164) and the files collected up to
\* it are returned.
RECURSIVE GetPdfFilesFrom(_, _, _)
GetPdfFilesFrom(dir, listing, files) ==
    IF listing = <<>> THEN files
    ELSE IF Head(listing).raises THEN files
    ELSE LET item == Head(listing)
             entry == [name |-> item.stem, path |-> dir \o item.stem \o item.suffix]
         IN  GetPdfFilesFrom(
                 dir, Tail(listing),
                 IF item.is_file /\ str_lower(item.suffix) = PdfSuffix
                 THEN IF \E i \in 1..Len(files) : files[i].name = item.stem
                      THEN [files EXCEPT
                                ![CHOOSE i \in 1..Len(files) : files[i].name = item.stem] = entry]
                      ELSE Append(files, entry)
                 ELSE files)

get_pdf_files(dir, listing) == GetPdfFilesFrom(dir, listing, <<>>)

\* A variant of NameCounts that drops the digits when they are to be kept.
RECURSIVE NameCounts_DigitsSwapped(_, _, _)
NameCounts_DigitsSwapped(files, counts, keep_numbers) ==
    IF files = <<>> THEN counts
    ELSE NameCounts_DigitsSwapped(
             Tail(files),
             AddToMap(counts, normalize_text(Head(files).name, keep_numbers),
                      Head(files).name),
             keep_numbers)

\* name_counts of check_duplicates_in_files (lines 205-210).
RECURSIVE NameCounts(_, _, _)
NameCounts(files, counts, keep_numbers) ==
    IF files = <<>> THEN counts
    ELSE NameCounts(Tail(files),
                    AddToMap(counts, normalize_text(Head(files).name, ~keep_numbers),
                             Head(files).name),
                    keep_numbers)

check_duplicates_in_files(files, keep_numbers) ==
    SelectSeq(NameCounts(files, <<>>, keep_numbers), LAMBDA e : Len(e.items) > 1)

\* value_counts of check_duplicates_in_csv (lines 237-243), as [key, items].
RECURSIVE ValueCounts(_, _, _, _)
ValueCounts(recs, column, counts, keep_numbers) ==
    IF recs = <<>> THEN counts
    ELSE LET value == Get(Head(recs), column)
         IN  ValueCounts(Tail(recs), column,
                         IF value # <<>>
                         THEN AddToMap(counts, normalize_text(value, ~keep_numbers), value)
                         ELSE counts,
                         keep_numbers)

\* The duplicates of a column: for every key counted twice, the value of the
\* first record that normalises to it, with the count (lines 245-253).
check_duplicates_in_csv(recs, column, keep_numbers) ==
    LET dups == SelectSeq(ValueCounts(recs, column, <<>>, keep_numbers),
                          LAMBDA e : Len(e.items) > 1)
        first(value) ==
            CHOOSE i \in 1..Len(recs) :
                /\ normalize_text(Get(recs[i], column), ~keep_numbers) = value
                /\ \A k \in 1..(i - 1) :
                       normalize_text(Get(recs[k], column), ~keep_numbers) # value
    IN  [i \in 1..Len(dups) |->
            [sample |-> Get(recs[first(dups[i].key)], column), count |-> Len(dups[i].items)]]

\* record.copy() with record[column] = value.
WithColumn(record, column, value) ==
    [c \in DOMAIN record \cup {column} |-> IF c = column THEN value ELSE record[c]]

\* csv.DictWriter(fieldnames) and csv.DictReader on what it wrote: every row
\* has the fields of the header, a missing field is the empty text.
WriteCsv(fieldnames, rows) ==
    [headers |-> fieldnames,
     rows |-> [i \in 1..Len(rows) |-> [c \in Range(fieldnames) |-> Get(rows[i], c)]]]

REASON_NO_PDF == <<"no matching PDF file found">>

\* str(n) of a count below ten.
DigitText(n) == <<<<"0", "1", "2", "3", "4", "5", "6", "7", "8", "9">>[n + 1]>>

\* '; '.join(paths)
RECURSIVE JoinPaths(_)
JoinPaths(paths) ==
    IF Len(paths) <= 1 THEN (IF paths = <<>> THEN <<>> ELSE Head(paths))
    ELSE Head(paths) \o <<";", " ">> \o JoinPaths(Tail(paths))

save_matched_csv(recs, hdrs, m) ==
    WriteCsv(hdrs \o <<"Matched_PDF_Path">>,
             [i \in 1..Len(m) |-> WithColumn(recs[m[i].idx], "Matched_PDF_Path", m[i].path)])

save_unmatched_csv(recs, hdrs, unmatched_indices, reason) ==
    WriteCsv(hdrs \o <<"Unmatch_Reason">>,
             [i \in 1..Len(unmatched_indices) |->
                 WithColumn(recs[unmatched_indices[i]], "Unmatch_Reason", reason)])

save_multi_matched_csv(recs, hdrs, mm) ==
    WriteCsv(hdrs \o <<"Matched_PDF_Paths", "Match_Count">>,
             [i \in 1..Len(mm) |->
                 WithColumn(WithColumn(recs[mm[i].idx], "Matched_PDF_Paths",
                                       JoinPaths(mm[i].paths)),
                            "Match_Count", DigitText(Len(mm[i].paths)))])

\* The partition file of a journal in one of the three directories.
PartitionFile(journal, table) ==
    [journal |-> journal, headers |-> table.headers, rows |-> table.rows]

---------------------------------------------------------------------------
(* merge_csv_files and generate_doi_url.                                   *)

\* The characters of file names, by code point.
AsciiOrder ==
    <<" ", "#", "-", ".", "/", "0", "1", "2", "3", "4", "5", "6", "7", "8", "9", ":", ";",
      "A", "B", "C", "D", "E", "F", "G", "H", "I", "J", "K", "L", "M",
      "N", "O", "P", "Q", "R", "S", "T", "U", "V", "W", "X", "Y", "Z", "_",
      "a", "b", "c", "d", "e", "f", "g", "h", "i", "j", "k", "l", "m",
      "n", "o", "p", "q", "r", "s", "t", "u", "v", "w", "x", "y", "z">>

Ord == [c \in Range(AsciiOrder) |-> CHOOSE i \in 1..Len(AsciiOrder) : AsciiOrder[i] = c]

\* a < b of two str.
RECURSIVE TextLess(_, _)
TextLess(a, b) ==
    IF b = <<>> THEN FALSE
    ELSE IF a = <<>> THEN TRUE
    ELSE IF Head(a) = Head(b) THEN TextLess(Tail(a), Tail(b))
    ELSE Ord[Head(a)] < Ord[Head(b)]

KIND_MATCHED == <<"_", "m", "a", "t", "c", "h", "e", "d">>
KIND_UNMATCHED == <<"_", "u", "n", "m", "a", "t", "c", "h", "e", "d">>
KIND_MULTI == <<"_", "m", "u", "l", "t", "i", "_", "m", "a", "t", "c", "h", "e", "d">>

\* The stem of the partition file of a journal: f"{journal_name}_matched".
Stem(journal, kind) == journal \o kind

\* sorted(input_dir.glob("*.csv")): the files of a directory by name.
RECURSIVE SortedFiles(_, _)
SortedFiles(files, kind) ==
    IF files = {} THEN <<>>
    ELSE LET first == CHOOSE f \in files : \A g \in files \ {f} :
                          TextLess(Stem(f.journal, kind), Stem(g.journal, kind))
         IN  <<first>> \o SortedFiles(files \ {first}, kind)

\* csv_file.stem.split('_')[0]
RECURSIVE BeforeUnderscore(_)
BeforeUnderscore(stem) ==
    IF stem = <<>> \/ Head(stem) = "_" THEN <<>>
    ELSE <<Head(stem)>> \o BeforeUnderscore(Tail(stem))

Whitespace == {" ", "\t", "\n", "\r"}

\* str.strip
RECURSIVE strip(_)
strip(text) ==
    IF text = <<>> THEN <<>>
    ELSE IF Head(text) \in Whitespace THEN strip(Tail(text))
    ELSE IF text[Len(text)] \in Whitespace THEN strip(SubSeq(text, 1, Len(text) - 1))
    ELSE text

DOI_ORG == <<"h", "t", "t", "p", "s", ":", "/", "/", "d", "o", "i", ".", "o", "r", "g", "/">>

\* A variant of generate_doi_url that keeps the whitespace around the DOI.
generate_doi_url_NoStrip(doi) ==
    IF doi = <<>> \/ strip(doi) = <<>> THEN <<>>
    ELSE IF StartsWith(doi, <<"h", "t", "t", "p">>) THEN doi
    ELSE DOI_ORG \o doi

generate_doi_url(doi) ==
    IF doi = <<>> \/ strip(doi) = <<>> THEN <<>>
    ELSE IF StartsWith(strip(doi), <<"h", "t", "t", "p">>) THEN strip(doi)
    ELSE DOI_ORG \o strip(doi)

\* The row that the loop of lines 524-545 appends, with its added columns.
MergedRow(row, journal_name, add_journal_column, add_doi_link) ==
    LET tagged == IF add_journal_column THEN WithColumn(row, "Journal", journal_name)
                  ELSE row
    IN  IF add_doi_link
        THEN WithColumn(tagged, "DOI_Download_Link", generate_doi_url(Get(tagged, "DOI")))
        ELSE tagged

\* A variant of MergeRow that keeps every row whose key is empty.
MergeRow_KeepEmptyKey(acc, row, journal_name, add_journal_column, add_doi_link, deduplicate, dedup_key, exclude_keys) ==
    LET key == Get(row, dedup_key)
    IN  IF key \in exclude_keys THEN acc
        ELSE IF deduplicate /\ key # <<>> /\ key \in acc.seen_keys THEN acc
        ELSE [records |-> Append(acc.records,
                                 MergedRow(row, journal_name, add_journal_column,
                                           add_doi_link)),
              seen_keys |-> IF deduplicate THEN acc.seen_keys \cup {key}
                            ELSE acc.seen_keys]

\* A variant of MergeRow that never looks a key up in seen_keys.
MergeRow_NoDedup(acc, row, journal_name, add_journal_column, add_doi_link, deduplicate, dedup_key, exclude_keys) ==
    IF Get(row, dedup_key) \in exclude_keys THEN acc
    ELSE [records |-> Append(acc.records,
                             MergedRow(row, journal_name, add_journal_column,
                                       add_doi_link)),
          seen_keys |-> acc.seen_keys]

\* One row of one file (lines 524-545): acc is [records, seen_keys].
MergeRow(acc, row, journal_name, add_journal_column, add_doi_link, deduplicate, dedup_key, exclude_keys) ==
    LET key == Get(row, dedup_key)
    IN  IF key \in exclude_keys THEN acc
        ELSE IF deduplicate /\ key \in acc.seen_keys THEN acc
        ELSE [records |-> Append(acc.records,
                                 MergedRow(row, journal_name, add_journal_column,
                                           add_doi_link)),
              seen_keys |-> IF deduplicate THEN acc.seen_keys \cup {key}
                            ELSE acc.seen_keys]

RECURSIVE MergeRows(_, _, _, _, _, _, _, _)
MergeRows(acc, rows, journal_name, add_journal_column, add_doi_link, deduplicate, dedup_key, exclude_keys) ==
    IF rows = <<>> THEN acc
    ELSE MergeRows(MergeRow(acc, Head(rows), journal_name, add_journal_column,
                            add_doi_link, deduplicate, dedup_key, exclude_keys),
                   Tail(rows), journal_name, add_journal_column, add_doi_link,
                   deduplicate, dedup_key, exclude_keys)

RECURSIVE MergeFiles(_, _, _, _, _, _, _, _)
MergeFiles(acc, csv_files, kind, add_journal_column, add_doi_link, deduplicate, dedup_key, exclude_keys) ==
    IF csv_files = <<>> THEN acc
    ELSE MergeFiles(MergeRows(acc, Head(csv_files).rows,
                              BeforeUnderscore(Stem(Head(csv_files).journal, kind)),
                              add_journal_column, add_doi_link, deduplicate, dedup_key,
                              exclude_keys),
                    Tail(csv_files), kind, add_journal_column, add_doi_link,
                    deduplicate, dedup_key, exclude_keys)

\* all_headers: the header of the first file, with the added columns.
AllHeaders(first_headers, add_journal_column, add_doi_link) ==
    (IF add_journal_column THEN <<"Journal">> ELSE <<>>)
        \o first_headers
        \o (IF add_doi_link THEN <<"DOI_Download_Link">> ELSE <<>>)

\* The merged file: none (<<>>) when no record is left, else the one table
\* written with the header of the first file and extrasaction='ignore'.
merge_csv_files(files, kind, add_journal_column, add_doi_link, deduplicate, dedup_key, exclude_keys) ==
    LET csv_files == SortedFiles(files, kind)
        all_records ==
            MergeFiles([records |-> <<>>, seen_keys |-> {}], csv_files, kind,
                       add_journal_column, add_doi_link, deduplicate, dedup_key,
                       exclude_keys).records
    IN  IF all_records = <<>> THEN <<>>
        ELSE <<WriteCsv(AllHeaders(Head(csv_files).headers, add_journal_column,
                                   add_doi_link),
                        all_records)>>

\* The rows of a merged file, none when the file was not written.
RowsOf(file) == IF file = <<>> THEN <<>> ELSE file[1].rows

\* A variant of CollectMatchedDois without the test of line 1031.
CollectMatchedDois_EveryValue(file) == {Get(row, "DOI") : row \in Range(RowsOf(file))}

\* matched_dois of main (lines 1026-1032), read from ALL_MATCHED.csv.
CollectMatchedDois(file) ==
    {Get(row, "DOI") : row \in Range(RowsOf(file))} \ {<<>>}

---------------------------------------------------------------------------
(* The inputs of the calls of match_pdfs_to_records that are checked.      *)

\* File names (without extension).
F_AbYear == <<"A", "b", "_", "2", "0", "2", "1", "_", "D", "S", "S">>
F_ab == <<"a", "b">>
F_AB == <<"A", "B">>
F_2021 == <<"2", "0", "2", "1">>
F_isj == <<"i", "s", "j", ".", "1">>
F_enc == <<"#", "x", "3", "a", ";">>

\* Values of the Title and DOI columns.
T_empty == <<>>
T_AbDssC == <<"A", "b", " ", "D", "S", "S", ":", " ", "c">>
T_2021ab == <<"2", "0", "2", "1", " ", "a", "b">>
T_doi == <<"1", "0", ".", "1", "1", "1", "1", "/", "i", "s", "j", ".", "1">>

MatchFileNames == {F_AbYear, F_ab, F_2021, F_isj, F_enc}

MatchTexts == {T_empty, T_AbDssC, T_2021ab, T_doi}

\* The dict entry of a file of directory dir (a text that ends in "/").
FileEntry(dir, name) == [name |-> name, path |-> dir \o name \o PdfSuffix]

\* match_column of process_journal (line 669).
MatchColumn(use_doi) == IF use_doi THEN "DOI" ELSE "Title"

\* The rows of a call: a value, possibly empty, in the match column.
MatchRows(use_doi) == {[c \in {MatchColumn(use_doi)} |-> v] : v \in MatchTexts}

\* The output directory before a run: no partition file, no merged file.
\* The dicts of files of a call, and its lists of rows.
MatchFileDicts ==
    {[i \in 1..Len(names) |-> FileEntry(<<>>, names[i])] :
        names \in InjSeqs(MatchFileNames, MaxFiles)}

MatchRecordsTitle == SeqsUpTo(MatchRows(FALSE), MaxRows)

MatchRecordsDoi == SeqsUpTo(MatchRows(TRUE), MaxRows)

\* No call of a single function is in progress.
NoCall == [fn |-> "", text |-> <<>>, flag |-> FALSE, files |-> <<>>, records |-> <<>>]

Calls == <<call, result>>

\* The state of the conversion client and of the batch processor.
Conversion ==
    <<max_retries, polls, files_status, status_info, files_to_process, batch_size, batch_start, task, stats>>

\* No status call was made.
NoStatusInfo == [raised |-> FALSE, extract_result |-> <<>>]

\* Neither wait_for_completion nor process_all is running.
NoConversion ==
    /\ max_retries = 0
    /\ polls = 0
    /\ files_status = <<>>
    /\ status_info = NoStatusInfo
    /\ files_to_process = 0
    /\ batch_size = 0
    /\ batch_start = 0
    /\ task = <<>>
    /\ stats = [success |-> 0, failed |-> 0]

NoPattern == [has_year |-> TRUE, use_doi |-> FALSE, special_encoding |-> FALSE]

NoDisk ==
    [matched |-> {}, unmatched |-> {}, multi_matched |-> {},
     ALL_MATCHED |-> <<>>, ALL_UNMATCHED |-> <<>>, ALL_MULTI_MATCHED |-> <<>>]

InitMatch ==
    /\ pc = "match_call"
    /\ pattern \in [has_year : BOOLEAN, use_doi : BOOLEAN, special_encoding : BOOLEAN]
    /\ pdf_files \in MatchFileDicts
    /\ records \in (IF pattern.use_doi THEN MatchRecordsDoi ELSE MatchRecordsTitle)
    /\ directory = <<>>
    /\ headers = <<>>
    /\ matched = <<>>
    /\ unmatched = <<>>
    /\ multi_matched = <<>>
    /\ journals_to_process = <<>>
    /\ ji = 0
    /\ doi_journals = {}
    /\ special_journals = {}
    /\ disk = NoDisk
    /\ all_stats = {}
    /\ matched_dois = {}
    /\ call = NoCall
    /\ result = <<>>
    /\ NoConversion

\* A call of match_pdfs_to_records.
MatchCall ==
    /\ pc = "match_call"
    /\ LET res == match_pdfs_to_records(pdf_files, records,
                                        MatchColumn(pattern.use_doi), pattern.use_doi,
                                        pattern.special_encoding, pattern.has_year)
       IN  /\ matched' = res.matched
           /\ unmatched' = res.unmatched
           /\ multi_matched' = res.multi_matched
    /\ pc' = "match_done"
    /\ UNCHANGED <<journals_to_process, ji, doi_journals, special_journals, directory,
                   records, headers, pdf_files, pattern, disk, all_stats, matched_dois,
                   call, result, Conversion>>

NextMatch == MatchCall

SpecMatch == InitMatch /\ [][NextMatch]_vars

---------------------------------------------------------------------------
(* Calls of the text functions and of check_duplicates_in_files, each on   *)
(* its own: SpecCalls.  A text of a call is put together from at most      *)
(* MaxPieces pieces that make the cases of the function happen.            *)

MaxPieces == 3

RECURSIVE Concat(_)
Concat(pieces) ==
    IF pieces = <<>> THEN <<>> ELSE Head(pieces) \o Concat(Tail(pieces))

TextsOf(pieces) == {Concat(s) : s \in SeqsUpTo(pieces, MaxPieces)}

\* Letters of both cases, a digit, a space, punctuation, KELVIN SIGN, LATIN
\* CAPITAL LETTER I WITH DOT ABOVE and LATIN SMALL LETTER E WITH ACUTE.
NormalizePieces ==
    {<<"A">>, <<"a">>, <<"z">>, <<"1">>, <<" ">>, <<".">>, <<"U+212A">>, <<"U+0130">>,
     <<"U+00E9">>}

EncodingPieces ==
    {<<"#", "x">>, <<"3", "a", ";">>, <<"#", "x", "3", "a", ";">>, <<"g">>, <<";">>,
     <<"#", "X">>, <<"T", "_", "2", "0">>, <<"2", "1", "_", "B">>}

TitlePieces ==
    {<<"A">>, <<"_">>, <<"2", "0", "2", "1">>, <<"2", "0", "2">>, <<"U+0663">>, <<"\n">>,
     <<"_", "1", "9", "9", "9", "_">>, <<"7">>}

DoiPieces ==
    {<<"i", "s", "j", ".">>, <<"j", ".", "1", "3", "6", "5", "-", "2", "5", "7", "5">>,
     <<"1", "0", ".">>, <<"1">>, <<"I">>, <<"x">>, <<".">>}

UrlPieces ==
    {<<"h", "t", "t", "p">>, <<"s", ":", "/", "/", "x">>, <<" ">>, <<"1", "0", ".", "1">>,
     <<"H", "T", "T", "P">>, <<"\t">>}

\* Names of files of one directory.
DupNames ==
    {<<"a", "b">>, <<"A", "B">>, <<"a", "1", "b">>, <<"a", "2", "b">>, <<"1">>, <<"2">>}

DupFileDicts ==
    {[i \in 1..Len(names) |-> FileEntry(<<>>, names[i])] :
        names \in InjSeqs(DupNames, MaxFiles)}

TextCall(fn, text, flag) ==
    [fn |-> fn, text |-> text, flag |-> flag, files |-> <<>>, records |-> <<>>]

\* Files and rows of the calls of match_pdfs_to_records: names with the keys
\* 'ab' and 'abdss', all of which start the first row's title.
MaxOrderFiles == 3

F_AbDSS == <<"A", "b", "_", "D", "S", "S">>

OrderNames == {F_ab, F_AB, F_AbDSS, F_AbYear}

OrderFileDicts ==
    {[i \in 1..Len(names) |-> FileEntry(<<>>, names[i])] :
        names \in InjSeqs(OrderNames, MaxOrderFiles)}

OrderRecords == <<[c \in {"Title"} |-> T_AbDssC], [c \in {"Title"} |-> <<"z", "z">>]>>

NormalizeCalls ==
    {TextCall("normalize_text", t, f) : t \in TextsOf(NormalizePieces), f \in BOOLEAN}

EncodingCalls == {TextCall("remove_isr_encoding", t, FALSE) : t \in TextsOf(EncodingPieces)}

TitleCalls ==
    {TextCall("extract_title_from_pdf_name", t, f) : t \in TextsOf(TitlePieces), f \in BOOLEAN}

DoiCalls == {TextCall("extract_doi_from_pdf_name", t, FALSE) : t \in TextsOf(DoiPieces)}

UrlCalls == {TextCall("generate_doi_url", t, FALSE) : t \in TextsOf(UrlPieces)}

DuplicateCalls ==
    {[fn |-> "check_duplicates_in_files", text |-> <<>>, flag |-> f, files |-> d, records |-> <<>>] :
        d \in DupFileDicts, f \in BOOLEAN}

MatchCalls ==
    {[fn |-> "match_pdfs_to_records", text |-> <<>>, flag |-> f, files |-> d, records |-> OrderRecords] :
        d \in OrderFileDicts, f \in BOOLEAN}

InitCalls ==
    /\ pc = "call"
    /\ \/ call \in NormalizeCalls
       \/ call \in EncodingCalls
       \/ call \in TitleCalls
       \/ call \in DoiCalls
       \/ call \in UrlCalls
       \/ call \in DuplicateCalls
       \/ call \in MatchCalls
    /\ result = <<>>
    /\ pattern = NoPattern
    /\ pdf_files = <<>>
    /\ records = <<>>
    /\ directory = <<>>
    /\ headers = <<>>
    /\ matched = <<>>
    /\ unmatched = <<>>
    /\ multi_matched = <<>>
    /\ journals_to_process = <<>>
    /\ ji = 0
    /\ doi_journals = {}
    /\ special_journals = {}
    /\ disk = NoDisk
    /\ all_stats = {}
    /\ matched_dois = {}
    /\ NoConversion

\* The call returns value.
Returns(value) ==
    /\ result' = value
    /\ pc' = "returned"
    /\ UNCHANGED <<Conversion, call, journals_to_process, ji, doi_journals, special_journals,
                   directory, records, headers, pdf_files, pattern, matched, unmatched,
                   multi_matched, disk, all_stats, matched_dois>>

CallNormalizeText ==
    /\ pc = "call"
    /\ call.fn = "normalize_text"
    /\ Returns(normalize_text(call.text, call.flag))

CallRemoveIsrEncoding ==
    /\ pc = "call"
    /\ call.fn = "remove_isr_encoding"
    /\ Returns(remove_isr_encoding(call.text))

CallExtractTitle ==
    /\ pc = "call"
    /\ call.fn = "extract_title_from_pdf_name"
    /\ Returns(extract_title_from_pdf_name(call.text, call.flag))

CallExtractDoi ==
    /\ pc = "call"
    /\ call.fn = "extract_doi_from_pdf_name"
    /\ Returns(extract_doi_from_pdf_name(call.text))

CallGenerateDoiUrl ==
    /\ pc = "call"
    /\ call.fn = "generate_doi_url"
    /\ Returns(generate_doi_url(call.text))

CallCheckDuplicatesInFiles ==
    /\ pc = "call"
    /\ call.fn = "check_duplicates_in_files"
    /\ Returns(check_duplicates_in_files(call.files, call.flag))

\* match_pdfs_to_records on the title, has_year_pattern being the flag.
CallMatchPdfsToRecords ==
    /\ pc = "call"
    /\ call.fn = "match_pdfs_to_records"
    /\ Returns(<<match_pdfs_to_records(call.files, call.records, "Title", FALSE, FALSE,
                                       call.flag)>>)

\* The same call once more.
CallMatchPdfsToRecordsAgain ==
    /\ pc = "returned"
    /\ call.fn = "match_pdfs_to_records"
    /\ result' = Append(result,
                        match_pdfs_to_records(call.files, call.records, "Title", FALSE,
                                              FALSE, call.flag))
    /\ pc' = "returned_again"
    /\ UNCHANGED <<Conversion, call, journals_to_process, ji, doi_journals, special_journals,
                   directory, records, headers, pdf_files, pattern, matched, unmatched,
                   multi_matched, disk, all_stats, matched_dois>>

NextCalls ==
    \/ CallNormalizeText
    \/ CallRemoveIsrEncoding
    \/ CallExtractTitle
    \/ CallExtractDoi
    \/ CallGenerateDoiUrl
    \/ CallCheckDuplicatesInFiles
    \/ CallMatchPdfsToRecords
    \/ CallMatchPdfsToRecordsAgain

SpecCalls == InitCalls /\ [][NextCalls]_vars

---------------------------------------------------------------------------
(* main: the journals one after another, then the three merges.            *)

J_DSS == <<"D", "S", "S">>
J_ISJ == <<"I", "S", "J">>
J_MQ == <<"M", "_", "Q">>
J_ISR == <<"I", "S", "R">>

JournalNames == {J_DSS, J_ISJ, J_MQ}

T_zz == <<"z", "z">>
T_yy == <<"y", "y">>
T_doi2 == <<"1", "0", ".", "2", "/", "y">>

Row(title, doi) == [c \in {"Title", "DOI"} |-> IF c = "Title" THEN title ELSE doi]

\* The CSV files a journal can have: a header and the rows under it.
Datasets ==
    {[headers |-> <<"Title", "DOI">>,
      records |-> <<Row(T_AbDssC, T_doi), Row(T_zz, T_empty)>>],
     [headers |-> <<"Title", "DOI">>,
      records |-> <<Row(T_zz, T_doi), Row(T_empty, T_doi2)>>],
     [headers |-> <<"Title", "DOI">>,
      records |-> <<Row(T_AbDssC, T_empty), Row(T_zz, T_empty)>>],
     [headers |-> <<"Title", "DOI">>,
      records |-> <<Row(T_yy, T_doi), Row(T_zz, T_doi)>>],
     [headers |-> <<"Title">>,
      records |-> <<[c \in {"Title"} |-> T_AbDssC]>>]}

Item(stem, suffix, is_file) ==
    [stem |-> stem, suffix |-> suffix, is_file |-> is_file, raises |-> FALSE]

\* An entry on which item.is_file() raises OSError (line 159).
RaisingItem(stem, suffix) ==
    [stem |-> stem, suffix |-> suffix, is_file |-> FALSE, raises |-> TRUE]

\* The directories a journal can have, as iterdir lists them.
Listings ==
    {<<>>,
     <<Item(F_AbYear, <<".", "p", "d", "f">>, TRUE)>>,
     <<Item(F_AbYear, <<".", "p", "d", "f">>, TRUE), Item(F_ab, <<".", "P", "D", "F">>, TRUE)>>,
     <<Item(F_ab, <<".", "p", "d", "f">>, TRUE), Item(F_AB, <<".", "p", "d", "f">>, TRUE)>>,
     <<Item(F_ab, <<".", "p", "d", "f">>, TRUE), Item(F_ab, <<".", "P", "D", "F">>, TRUE)>>,
     <<Item(F_isj, <<".", "p", "d", "f">>, TRUE), Item(F_ab, <<".", "t", "x", "t">>, TRUE)>>,
     <<Item(F_AbYear, <<".", "p", "d", "f">>, TRUE), RaisingItem(F_ab, <<".", "p", "d", "f">>)>>}

Init ==
    /\ pc = "main_loop"
    /\ journals_to_process \in InjSeqs(JournalNames, MaxSources)
    /\ ji = 1
    /\ doi_journals = {J_ISJ}
    /\ special_journals = {J_ISR}
    /\ directory = <<>>
    /\ records = <<>>
    /\ headers = <<>>
    /\ pdf_files = <<>>
    /\ pattern = NoPattern
    /\ matched = <<>>
    /\ unmatched = <<>>
    /\ multi_matched = <<>>
    /\ disk = NoDisk
    /\ all_stats = {}
    /\ matched_dois = {}
    /\ call = NoCall
    /\ result = <<>>
    /\ NoConversion

Journal == journals_to_process[ji]

InLoop == pc = "main_loop" /\ ji <= Len(journals_to_process)

Locals == <<directory, records, headers, pdf_files, pattern, matched, unmatched, multi_matched>>

Args == <<journals_to_process, doi_journals, special_journals>>

\* process_journal returns or raises: its locals are gone, main records the
\* status and takes the next journal.
Return(status) ==
    /\ all_stats' = all_stats \cup {[journal |-> Journal, status |-> status]}
    /\ ji' = ji + 1
    /\ pc' = "main_loop"
    /\ directory' = <<>>
    /\ records' = <<>>
    /\ headers' = <<>>
    /\ pdf_files' = <<>>
    /\ pattern' = NoPattern
    /\ matched' = <<>>
    /\ unmatched' = <<>>
    /\ multi_matched' = <<>>

\* Lines 944-954: no CSV file for the journal, or no directory.
MainSkipJournal ==
    /\ InLoop
    /\ ji' = ji + 1
    /\ UNCHANGED <<pc, Calls, Conversion, Args, Locals, disk, all_stats, matched_dois>>

\* Lines 647-649, 770-774, 967-969: read_csv_records raises.
LoadFails ==
    /\ InLoop
    /\ Return("error")
    /\ UNCHANGED <<Calls, Conversion, Args, disk, matched_dois>>

\* Lines 649-656: the CSV and the directory are read.
Load ==
    /\ InLoop
    /\ \E ds \in Datasets : \E listing \in Listings :
           /\ directory' = listing
           /\ records' = ds.records
           /\ headers' = ds.headers
           /\ pdf_files' = get_pdf_files(Journal \o <<"/">>, listing)
    /\ pattern' = NoPattern
    /\ pc' = "pj_loaded"
    /\ UNCHANGED <<Calls, Conversion, Args, ji, matched, unmatched, multi_matched, disk, all_stats,
                   matched_dois>>

\* Lines 658-661: the directory has no PDF file, process_journal returns its
\* stats.
LoadNoPdfs ==
    /\ pc = "pj_loaded"
    /\ pdf_files = <<>>
    /\ Return("ok")
    /\ UNCHANGED <<Calls, Conversion, Args, disk, matched_dois>>

\* Lines 663-669: the profile of the journal is chosen.
ChoosePattern ==
    /\ pc = "pj_loaded"
    /\ pdf_files # <<>>
    /\ pattern' = get_journal_pattern(Journal, doi_journals, special_journals)
    /\ pc' = "pj_check_files"
    /\ UNCHANGED <<Calls, Conversion, Args, ji, directory, records, headers, pdf_files, matched, unmatched,
                   multi_matched, disk, all_stats, matched_dois>>

\* Lines 683-693: the file names are checked; duplicates are printed and
\* input() waits.
CheckFileDups ==
    /\ pc = "pj_check_files"
    /\ pc' = IF check_duplicates_in_files(pdf_files, pattern.use_doi) # <<>>
             THEN "pj_ack_files" ELSE "pj_check_csv"
    /\ UNCHANGED <<Calls, Conversion, Args, ji, Locals, disk, all_stats, matched_dois>>

\* Line 691: the operator presses Enter.
AckFileDups ==
    /\ pc = "pj_ack_files"
    /\ pc' = "pj_check_csv"
    /\ UNCHANGED <<Calls, Conversion, Args, ji, Locals, disk, all_stats, matched_dois>>

\* Lines 696-710: the same for the values of the match column.
CheckCsvDups ==
    /\ pc = "pj_check_csv"
    /\ pc' = IF check_duplicates_in_csv(records, MatchColumn(pattern.use_doi),
                                        pattern.use_doi) # <<>>
             THEN "pj_ack_csv" ELSE "pj_match"
    /\ UNCHANGED <<Calls, Conversion, Args, ji, Locals, disk, all_stats, matched_dois>>

\* Line 708: the operator presses Enter.
AckCsvDups ==
    /\ pc = "pj_ack_csv"
    /\ pc' = "pj_match"
    /\ UNCHANGED <<Calls, Conversion, Args, ji, Locals, disk, all_stats, matched_dois>>

\* Lines 714-722.
Match ==
    /\ pc = "pj_match"
    /\ LET res == match_pdfs_to_records(pdf_files, records, MatchColumn(pattern.use_doi),
                                        pattern.use_doi, pattern.special_encoding,
                                        pattern.has_year)
       IN  /\ matched' = res.matched
           /\ unmatched' = res.unmatched
           /\ multi_matched' = res.multi_matched
    /\ pc' = "pj_save"
    /\ UNCHANGED <<Calls, Conversion, Args, ji, directory, records, headers, pdf_files, pattern, disk,
                   all_stats, matched_dois>>

\* The files of a directory after the file of a journal is written.
WithFile(files, file) == {f \in files : f.journal # file.journal} \cup {file}

\* A variant of SavePartitions that writes the three files whatever the results.
SavePartitions_Always(d, journal, recs, hdrs, m, u, mm) ==
    [d EXCEPT
        !.matched = WithFile(@, PartitionFile(journal, save_matched_csv(recs, hdrs, m))),
        !.unmatched = WithFile(@, PartitionFile(journal,
                                      save_unmatched_csv(recs, hdrs, u, REASON_NO_PDF))),
        !.multi_matched = WithFile(@, PartitionFile(journal,
                                          save_multi_matched_csv(recs, hdrs, mm)))]

\* Lines 733-760: each result that is not empty is written to its file.
SavePartitions(d, journal, recs, hdrs, m, u, mm) ==
    [d EXCEPT
        !.matched = IF m # <<>>
                    THEN WithFile(@, PartitionFile(journal, save_matched_csv(recs, hdrs, m)))
                    ELSE @,
        !.unmatched = IF u # <<>>
                      THEN WithFile(@, PartitionFile(journal,
                                           save_unmatched_csv(recs, hdrs, u, REASON_NO_PDF)))
                      ELSE @,
        !.multi_matched = IF mm # <<>>
                          THEN WithFile(@, PartitionFile(journal,
                                               save_multi_matched_csv(recs, hdrs, mm)))
                          ELSE @]

\* A variant of InMemoryAfterSaves in which the save functions set the added
\* columns on records[idx] itself.
InMemoryAfterSaves_NoCopy(recs, m, u, mm) ==
    [i \in 1..Len(recs) |->
        IF \E k \in 1..Len(m) : m[k].idx = i
        THEN WithColumn(recs[i], "Matched_PDF_Path",
                        m[CHOOSE k \in 1..Len(m) : m[k].idx = i].path)
        ELSE IF i \in Range(u)
        THEN WithColumn(recs[i], "Unmatch_Reason", REASON_NO_PDF)
        ELSE recs[i]]

\* The list records after the three save functions: each of them sets its
\* added columns on records[idx].copy() (lines 374, 406, 437), so the dicts of
\* the list are as they were.
InMemoryAfterSaves(recs, m, u, mm) == recs

Save ==
    /\ pc = "pj_save"
    /\ disk' = SavePartitions(disk, Journal, records, headers, matched, unmatched,
                              multi_matched)
    /\ records' = InMemoryAfterSaves(records, matched, unmatched, multi_matched)
    /\ pc' = "pj_stats"
    /\ UNCHANGED <<Calls, Conversion, Args, ji, directory, headers, pdf_files, pattern, matched, unmatched,
                   multi_matched, all_stats, matched_dois>>

\* Lines 762-776: the statistics are logged and returned.
ReturnStats ==
    /\ pc = "pj_stats"
    /\ Return("ok")
    /\ UNCHANGED <<Calls, Conversion, Args, disk, matched_dois>>

\* A variant of MainSummary that leaves the loop before its last journal.
MainSummary_BeforeLastJournal ==
    /\ pc = "main_loop"
    /\ ji >= Len(journals_to_process)
    /\ pc' = "merge_matched"
    /\ UNCHANGED <<Calls, Conversion, Args, ji, Locals, disk, all_stats, matched_dois>>

\* Lines 971-1010: the loop is over, the summary is logged.
MainSummary ==
    /\ pc = "main_loop"
    /\ ji > Len(journals_to_process)
    /\ pc' = "merge_matched"
    /\ UNCHANGED <<Calls, Conversion, Args, ji, Locals, disk, all_stats, matched_dois>>

\* merge_csv_files of the matched partitions, as main calls it (line 1016).
MergeMatchedFile(d) ==
    merge_csv_files(d.matched, KIND_MATCHED, TRUE, FALSE, FALSE, "DOI", {})

\* Lines 1013-1035: ALL_MATCHED.csv, and the DOIs read back from it.
MergeMatched ==
    /\ pc = "merge_matched"
    /\ disk' = IF disk.matched # {}
               THEN [disk EXCEPT !.ALL_MATCHED = MergeMatchedFile(disk)]
               ELSE disk
    /\ matched_dois' = IF disk.matched # {}
                       THEN CollectMatchedDois(MergeMatchedFile(disk))
                       ELSE {}
    /\ pc' = "merge_unmatched"
    /\ UNCHANGED <<Calls, Conversion, Args, ji, Locals, all_stats>>

\* A variant of MergeUnmatchedFile that passes no exclude_keys.
MergeUnmatchedFile_NoExclusion(d, exclude_keys) ==
    merge_csv_files(d.unmatched, KIND_UNMATCHED, FALSE, TRUE, TRUE, "DOI", {})

\* merge_csv_files of the unmatched partitions, as main calls it (line 1040).
MergeUnmatchedFile(d, exclude_keys) ==
    merge_csv_files(d.unmatched, KIND_UNMATCHED, FALSE, TRUE, TRUE, "DOI", exclude_keys)

\* Lines 1038-1053: ALL_UNMATCHED.csv.
MergeUnmatched ==
    /\ pc = "merge_unmatched"
    /\ disk' = IF disk.unmatched # {}
               THEN [disk EXCEPT !.ALL_UNMATCHED = MergeUnmatchedFile(disk, matched_dois)]
               ELSE disk
    /\ pc' = "merge_multi_matched"
    /\ UNCHANGED <<Calls, Conversion, Args, ji, Locals, all_stats, matched_dois>>

\* merge_csv_files of the multi-matched partitions (line 1058).
MergeMultiMatchedFile(d) ==
    merge_csv_files(d.multi_matched, KIND_MULTI, TRUE, TRUE, FALSE, "DOI", {})

\* Lines 1056-1068: ALL_MULTI_MATCHED.csv.
MergeMultiMatched ==
    /\ pc = "merge_multi_matched"
    /\ disk' = IF disk.multi_matched # {}
               THEN [disk EXCEPT !.ALL_MULTI_MATCHED = MergeMultiMatchedFile(disk)]
               ELSE disk
    /\ pc' = "done"
    /\ UNCHANGED <<Calls, Conversion, Args, ji, Locals, all_stats, matched_dois>>

Next ==
    \/ MainSkipJournal
    \/ LoadFails
    \/ LoadNoPdfs
    \/ Load
    \/ ChoosePattern
    \/ CheckFileDups
    \/ AckFileDups
    \/ CheckCsvDups
    \/ AckCsvDups
    \/ Match
    \/ Save
    \/ ReturnStats
    \/ MainSummary
    \/ MergeMatched
    \/ MergeUnmatched
    \/ MergeMultiMatched

Spec == Init /\ [][Next]_vars

---------------------------------------------------------------------------
(* Properties of match_pdfs_to_records, checked under SpecMatch.           *)

MatchedIdx == {matched[i].idx : i \in 1..Len(matched)}
UnmatchedIdx == Range(unmatched)
MultiIdx == {multi_matched[i].idx : i \in 1..Len(multi_matched)}

\* The files the result gives to row idx.
CandidatesOf(idx) ==
    {matched[i].path : i \in {k \in 1..Len(matched) : matched[k].idx = idx}}
        \cup UNION {Range(multi_matched[i].paths) :
                        i \in {k \in 1..Len(multi_matched) : multi_matched[k].idx = idx}}

\* The key of every file name and the normalised text of every column value
\* of the inputs, under every profile.
KeyTable ==
    [n \in MatchFileNames, p \in [has_year : BOOLEAN, use_doi : BOOLEAN,
                                   special_encoding : BOOLEAN] |->
        MatchKey(n, p.use_doi, p.special_encoding, p.has_year)]

TextTable == [v \in MatchTexts, d \in BOOLEAN |-> RecordNormalized(v, d)]

FileKey(f) == KeyTable[f.name, pattern]

ColumnValue(idx) == Get(records[idx], MatchColumn(pattern.use_doi))

RowText(idx) == TextTable[ColumnValue(idx), pattern.use_doi]

IsPrefixOf(key, text) == Len(key) <= Len(text) /\ key = SubSeq(text, 1, Len(key))

\* key occurs in text, at any position.
OccursIn(key, text) ==
    \E a \in 1..(Len(text) + 1) :
        a + Len(key) - 1 <= Len(text) /\ key = SubSeq(text, a, a + Len(key) - 1)

\* C1: every row index is in exactly one of matched, unmatched and
\* multi_matched: the three index sets are pairwise disjoint, no index is
\* listed twice, and together they are all the row indices.
C1_EveryRowInExactlyOneResult ==
    pc = "match_done" =>
        /\ MatchedIdx \cap UnmatchedIdx = {}
        /\ MatchedIdx \cap MultiIdx = {}
        /\ UnmatchedIdx \cap MultiIdx = {}
        /\ MatchedIdx \cup UnmatchedIdx \cup MultiIdx = 1..Len(records)
        /\ Len(matched) + Len(unmatched) + Len(multi_matched) = Len(records)

C1_Witness ==
    /\ pc = "match_done"
    /\ Len(matched) >= 1
    /\ Len(multi_matched) >= 1

\* C2: a file is a candidate of a row iff its key is not empty and the row's
\* normalised text starts with the key; a key that only occurs later in the
\* text, or that the text is a proper prefix of, gives no candidate.
C2_CandidateIffKeyStartsRowText ==
    pc = "match_done" =>
        \A idx \in 1..Len(records) : \A f \in Range(pdf_files) :
                /\ f.path \in CandidatesOf(idx)
                       <=> (FileKey(f) # <<>> /\ IsPrefixOf(FileKey(f), RowText(idx)))
                /\ (IsPrefixOf(RowText(idx), FileKey(f)) /\ RowText(idx) # FileKey(f))
                       => f.path \notin CandidatesOf(idx)
                /\ (OccursIn(FileKey(f), RowText(idx)) /\ ~IsPrefixOf(FileKey(f), RowText(idx)))
                       => f.path \notin CandidatesOf(idx)

\* A row whose text a key starts, and a row whose text is a proper prefix of
\* that key.
C2_Witness ==
    /\ pc = "match_done"
    /\ \E idx \in 1..Len(records) : \E f \in Range(pdf_files) :
           /\ f.path \in CandidatesOf(idx)
           /\ Len(FileKey(f)) < Len(RowText(idx))
           /\ \E other \in 1..Len(records) :
                  /\ RowText(other) # <<>>
                  /\ IsPrefixOf(RowText(other), FileKey(f))
                  /\ f.path \notin CandidatesOf(other)

\* C3: for a row with a value in the match column the number of candidates
\* decides: none is unmatched, one is matched with that file, two or more is
\* multi_matched with all of them, whatever keys they come from.
C3_OutcomeByNumberOfCandidates ==
    pc = "match_done" =>
        \A idx \in 1..Len(records) :
                ColumnValue(idx) # <<>> =>
                    LET cands == {f.path : f \in {g \in Range(pdf_files) :
                                      FileKey(g) # <<>> /\ IsPrefixOf(FileKey(g), RowText(idx))}}
                    IN  /\ cands = {} => idx \in UnmatchedIdx
                        /\ Cardinality(cands) = 1 =>
                               \E i \in 1..Len(matched) :
                                   matched[i].idx = idx /\ cands = {matched[i].path}
                        /\ Cardinality(cands) >= 2 =>
                               \E i \in 1..Len(multi_matched) :
                                   /\ multi_matched[i].idx = idx
                                   /\ Range(multi_matched[i].paths) = cands
                                   /\ Len(multi_matched[i].paths) = Cardinality(cands)

\* A multi-matched row whose candidates have different keys, one a prefix of
\* the other.
C3_Witness ==
    /\ pc = "match_done"
    /\ \E idx \in MultiIdx : \E f, g \in Range(pdf_files) :
           /\ FileKey(f) # <<>>
           /\ FileKey(f) # FileKey(g)
           /\ IsPrefixOf(FileKey(f), FileKey(g))
           /\ IsPrefixOf(FileKey(g), RowText(idx))

\* C4 on the entries of the dict that match_pdfs_to_records is given, any key:
\* two entries with the same key, the key a prefix of the row's text, make the
\* row multi_matched with both files. The empty key is a prefix of every text
\* and matches no row, so this does not hold.
C4_SameKeyEntriesMultiMatched ==
    pc = "match_done" =>
        \A idx \in 1..Len(records) : \A f, g \in Range(pdf_files) :
                (f # g /\ FileKey(f) = FileKey(g) /\ IsPrefixOf(FileKey(f), RowText(idx)))
                    => /\ idx \in MultiIdx
                       /\ {f.path, g.path} \subseteq CandidatesOf(idx)
                       /\ idx \notin MatchedIdx

\* C4 on the entries of the dict that match_pdfs_to_records is given, the key
\* not empty: what the function itself guarantees.
C4_SameNonEmptyKeyEntriesMultiMatched ==
    pc = "match_done" =>
        \A idx \in 1..Len(records) : \A f, g \in Range(pdf_files) :
                (/\ f # g
                 /\ FileKey(f) = FileKey(g)
                 /\ FileKey(f) # <<>>
                 /\ IsPrefixOf(FileKey(f), RowText(idx)))
                    => /\ idx \in MultiIdx
                       /\ {f.path, g.path} \subseteq CandidatesOf(idx)
                       /\ idx \notin MatchedIdx

C4_EntriesWitness ==
    /\ pc = "match_done"
    /\ \E idx \in MultiIdx : \E f, g \in Range(pdf_files) :
           /\ f # g
           /\ FileKey(f) = FileKey(g)
           /\ FileKey(f) # <<>>
           /\ IsPrefixOf(FileKey(f), RowText(idx))

---------------------------------------------------------------------------
(* Properties of process_journal and of the three merges, checked under    *)
(* Spec.                                                                   *)

\* The entries of the directory that are PDF files, by position.
DirectoryPdfs ==
    {i \in 1..Len(directory) :
        directory[i].is_file /\ str_lower(directory[i].suffix) = PdfSuffix}

DirectoryPath(i) == Journal \o <<"/">> \o directory[i].stem \o directory[i].suffix

DirectoryKey(i) ==
    MatchKey(directory[i].stem, pattern.use_doi, pattern.special_encoding,
             pattern.has_year)

SourceRowText(idx) ==
    RecordNormalized(Get(records[idx], MatchColumn(pattern.use_doi)), pattern.use_doi)

\* C4 for the files of a journal's directory, the key taken non-empty as the
\* matching rule requires: two distinct PDF files with the same key, the key
\* a prefix of a row's text, make the row multi_matched with both files and
\* never matched with one of them.
C4_SameKeyFilesOfSourceMultiMatched ==
    pc = "pj_save" =>
        \A idx \in 1..Len(records) : \A i, j \in DirectoryPdfs :
            (/\ i # j
             /\ DirectoryKey(i) = DirectoryKey(j)
             /\ DirectoryKey(i) # <<>>
             /\ IsPrefixOf(DirectoryKey(i), SourceRowText(idx)))
                => /\ idx \in MultiIdx
                   /\ {DirectoryPath(i), DirectoryPath(j)} \subseteq CandidatesOf(idx)
                   /\ idx \notin MatchedIdx

\* The match column of the partition files of a journal.
PartitionMatchColumn(journal) ==
    MatchColumn(get_journal_pattern(journal, doi_journals, special_journals).use_doi)

\* C5: a row with no value in the match column is written to the unmatched
\* partition of its journal with a reason of its own, which is not the reason
\* of the rows that no file matched.
C5_EmptyFieldHasItsOwnReason ==
    \A f \in disk.unmatched : \A i \in 1..Len(f.rows) :
        Get(f.rows[i], PartitionMatchColumn(f.journal)) = <<>>
            => Get(f.rows[i], "Unmatch_Reason") # REASON_NO_PDF

AfterMergeMatched == {"merge_unmatched", "merge_multi_matched", "done"}

AllMatchedRows == Range(RowsOf(disk.ALL_MATCHED))

AllUnmatchedRows == Range(RowsOf(disk.ALL_UNMATCHED))

\* C6 as stated: after the merges no row of ALL_UNMATCHED has the DOI value
\* of a row of ALL_MATCHED.
C6_NoUnmatchedRowWithMatchedDoi ==
    pc = "done" =>
        \A u \in AllUnmatchedRows : \A m \in AllMatchedRows :
            Get(u, "DOI") # Get(m, "DOI")

\* C6, amended: after the merges no row of ALL_UNMATCHED has a non-empty DOI
\* value that is the DOI of a row of ALL_MATCHED, whatever journals the two
\* rows come from (the empty value is never excluded).
C6_NoUnmatchedRowWithNonEmptyMatchedDoi ==
    pc = "done" =>
        \A u \in AllUnmatchedRows : \A m \in AllMatchedRows :
            Get(u, "DOI") # <<>> => Get(u, "DOI") # Get(m, "DOI")

\* An unmatched row of one journal is left out of ALL_UNMATCHED because of a
\* matched row of another journal, and ALL_UNMATCHED has other rows.
C6_Witness ==
    /\ pc = "done"
    /\ disk.ALL_UNMATCHED # <<>>
    /\ \E f \in disk.unmatched : \E g \in disk.matched :
           /\ f.journal # g.journal
           /\ \E u \in Range(f.rows) : \E m \in Range(g.rows) :
                  /\ Get(u, "DOI") # <<>>
                  /\ Get(u, "DOI") = Get(m, "DOI")
                  /\ Get(m, "DOI") \in {Get(r, "DOI") : r \in AllMatchedRows}
                  /\ \A h \in disk.matched :
                         h.journal = f.journal
                             => \A r \in Range(h.rows) : Get(r, "DOI") # Get(u, "DOI")

\* The rows of partition files in the order given, each with the journal of
\* its file.
RECURSIVE RowsInOrder(_)
RowsInOrder(csv_files) ==
    IF csv_files = <<>> THEN <<>>
    ELSE [i \in 1..Len(Head(csv_files).rows) |->
             [journal |-> Head(csv_files).journal, row |-> Head(csv_files).rows[i]]]
         \o RowsInOrder(Tail(csv_files))

\* The DOI values that rows of two or more unmatched partitions have.
SharedUnmatchedDois ==
    {v \in UNION {{Get(r, "DOI") : r \in Range(f.rows)} : f \in disk.unmatched} :
        \E f, g \in disk.unmatched :
            /\ f # g
            /\ \E r \in Range(f.rows) : Get(r, "DOI") = v
            /\ \E r \in Range(g.rows) : Get(r, "DOI") = v}

\* The first row with DOI value v of a list of [journal, row].
FirstWith(parts, v) ==
    parts[CHOOSE i \in 1..Len(parts) :
              /\ Get(parts[i].row, "DOI") = v
              /\ \A k \in 1..(i - 1) : Get(parts[k].row, "DOI") # v].row

\* A row of an unmatched partition as ALL_UNMATCHED shows it.
AsUnmatchedRow(row) ==
    [c \in Range(disk.ALL_UNMATCHED[1].headers) |->
        IF c = "DOI_Download_Link" THEN generate_doi_url(Get(row, "DOI"))
        ELSE Get(row, c)]

\* The unmatched partitions in the order the journals were processed.
RECURSIVE UnmatchedInProcessingOrder(_)
UnmatchedInProcessingOrder(js) ==
    IF js = <<>> THEN <<>>
    ELSE (IF \E f \in disk.unmatched : f.journal = Head(js)
          THEN <<CHOOSE f \in disk.unmatched : f.journal = Head(js)>> ELSE <<>>)
         \o UnmatchedInProcessingOrder(Tail(js))

\* C7 as stated: of the rows of several unmatched partitions with the same
\* DOI value ALL_UNMATCHED has exactly one, the row of the journal that was
\* processed first.
C7_SurvivorFromFirstProcessedSource ==
    pc = "done" =>
        \A v \in SharedUnmatchedDois :
            /\ disk.ALL_UNMATCHED # <<>>
            /\ Cardinality({i \in 1..Len(RowsOf(disk.ALL_UNMATCHED)) :
                               Get(RowsOf(disk.ALL_UNMATCHED)[i], "DOI") = v}) = 1
            /\ AsUnmatchedRow(FirstWith(RowsInOrder(
                   UnmatchedInProcessingOrder(journals_to_process)), v))
                   \in AllUnmatchedRows

\* C7, amended: of the rows of several unmatched partitions with the same DOI
\* value that is not a DOI collected from ALL_MATCHED, ALL_UNMATCHED (when
\* the partition file read first gives it a DOI column) has exactly one, the
\* first such row in the order of the partition file names; of a collected
\* DOI it has none.
C7_SurvivorFromFirstFileByName ==
    (pc = "done" /\ disk.unmatched # {}) =>
        LET csv_files == SortedFiles(disk.unmatched, KIND_UNMATCHED)
        IN  \A v \in SharedUnmatchedDois :
                IF v \in matched_dois
                THEN \A u \in AllUnmatchedRows : Get(u, "DOI") # v
                ELSE "DOI" \in Range(Head(csv_files).headers) =>
                         /\ disk.ALL_UNMATCHED # <<>>
                         /\ Cardinality({i \in 1..Len(RowsOf(disk.ALL_UNMATCHED)) :
                                Get(RowsOf(disk.ALL_UNMATCHED)[i], "DOI") = v}) = 1
                         /\ \E u \in AllUnmatchedRows :
                                /\ Get(u, "DOI") = v
                                /\ u = AsUnmatchedRow(FirstWith(RowsInOrder(csv_files), v))

\* Two unmatched partitions have different rows with the same DOI value,
\* the journal processed first has the later file name, and ALL_UNMATCHED
\* has the row of the other journal.
C7_Witness ==
    /\ pc = "done"
    /\ disk.ALL_UNMATCHED # <<>>
    /\ \E v \in SharedUnmatchedDois \ matched_dois :
           LET by_name == FirstWith(RowsInOrder(
                              SortedFiles(disk.unmatched, KIND_UNMATCHED)), v)
               by_run == FirstWith(RowsInOrder(
                             UnmatchedInProcessingOrder(journals_to_process)), v)
           IN  /\ v # <<>>
               /\ by_name # by_run
               /\ AsUnmatchedRow(by_name) \in AllUnmatchedRows
               /\ AsUnmatchedRow(by_run) \notin AllUnmatchedRows

\* C8 as stated: the set used for exclusion is the set of the DOI values of
\* the rows of ALL_MATCHED.
C8_ExclusionSetIsEveryMatchedDoi ==
    pc \in AfterMergeMatched =>
        matched_dois = {Get(m, "DOI") : m \in AllMatchedRows}

\* C8, amended: the set used for exclusion is the set of the non-empty DOI
\* values of the rows of ALL_MATCHED.
C8_ExclusionSetIsNonEmptyMatchedDois ==
    pc \in AfterMergeMatched =>
        matched_dois = {d \in {Get(m, "DOI") : m \in AllMatchedRows} : d # <<>>}

\* ALL_MATCHED has a row with a DOI and a row without one.
C8_Witness ==
    /\ pc \in AfterMergeMatched
    /\ matched_dois # {}
    /\ \E m \in AllMatchedRows : Get(m, "DOI") = <<>>

\* A row of a partition as a merged table with the given header shows it,
\* left aside the columns that the merge adds.
SameSourceColumns(merged, row, table_headers) ==
    \A c \in (DOMAIN row \cap Range(table_headers)) \ {"Journal", "DOI_Download_Link"} :
        merged[c] = row[c]

\* C9: ALL_MATCHED has the rows of the matched partitions of all journals,
\* one for one, and the Journal column of each row is the name of the journal
\* whose partition the row is from.
C9_MatchedTableIsConcatenationTaggedWithSource ==
    (pc \in AfterMergeMatched /\ disk.matched # {}) =>
        LET parts == RowsInOrder(SortedFiles(disk.matched, KIND_MATCHED))
            rows == RowsOf(disk.ALL_MATCHED)
        IN  /\ disk.ALL_MATCHED # <<>>
            /\ Len(rows) = Len(parts)
            /\ \A i \in 1..Len(rows) :
                   /\ SameSourceColumns(rows[i], parts[i].row, disk.ALL_MATCHED[1].headers)
                   /\ Get(rows[i], "Journal") = parts[i].journal

\* C10: ALL_MULTI_MATCHED has the rows of the multi-matched partitions of all
\* journals, one for one (none left out as a duplicate or as matched
\* elsewhere), and the Journal column of each row is the name of the journal
\* whose partition the row is from.
C10_MultiTableIsConcatenationTaggedWithSource ==
    (pc = "done" /\ disk.multi_matched # {}) =>
        LET parts == RowsInOrder(SortedFiles(disk.multi_matched, KIND_MULTI))
            rows == RowsOf(disk.ALL_MULTI_MATCHED)
        IN  /\ disk.ALL_MULTI_MATCHED # <<>>
            /\ Len(rows) = Len(parts)
            /\ \A i \in 1..Len(rows) :
                   /\ SameSourceColumns(rows[i], parts[i].row,
                                        disk.ALL_MULTI_MATCHED[1].headers)
                   /\ Get(rows[i], "Journal") = parts[i].journal

---------------------------------------------------------------------------
(* Properties of the text functions and of check_duplicates_in_files,      *)
(* checked under SpecCalls.                                                *)

Returned(fn) == pc = "returned" /\ call.fn = fn

\* C11: normalize_text applied to its own result, with the same flag, gives
\* that result again.
C11_NormalizeIdempotent ==
    Returned("normalize_text") => normalize_text(result, call.flag) = result

\* A text that normalize_text changed into a non-empty key.
C11_Witness ==
    /\ Returned("normalize_text")
    /\ result # <<>>
    /\ result # call.text

\* The same letter in the other case, as a text; a character without case is
\* left as it is.
OtherCase(c) ==
    IF c \in UpperAZ THEN <<LowerOf[c]>>
    ELSE IF c \in AZ THEN <<UpperOf[c]>>
    ELSE IF c = "U+212A" THEN <<"k">>
    ELSE IF c = "U+0130" THEN <<"i", "U+0307">>
    ELSE IF c = "U+00E9" THEN <<"U+00C9">>
    ELSE <<c>>

RECURSIVE SwapCase(_)
SwapCase(text) ==
    IF text = <<>> THEN <<>> ELSE OtherCase(Head(text)) \o SwapCase(Tail(text))

\* Punctuation and spaces, and the digits when they are dropped.
StrippedCharacters(remove_numbers) ==
    {" ", "."} \cup (IF remove_numbers THEN AsciiDigits ELSE {})

WithoutStripped(text, remove_numbers) ==
    SelectSeq(text, LAMBDA c : c \notin StrippedCharacters(remove_numbers))

\* Texts that differ from text in letter case and stripped characters only.
Variants(text, remove_numbers) ==
    {SwapCase(text), WithoutStripped(text, remove_numbers),
     SwapCase(WithoutStripped(text, remove_numbers))}
        \cup {<<c>> \o text : c \in StrippedCharacters(remove_numbers)}
        \cup {text \o <<c>> : c \in StrippedCharacters(remove_numbers)}

\* C12: every call of normalize_text returns; the result has only characters
\* of a-z, and of 0-9 too when digits are kept; the empty text gives the
\* empty key; a text that differs from the argument only in letter case and
\* in punctuation, spaces (and digits, when dropped) gives the same key.
C12_NormalizeTotalAlphabetInsensitive ==
    /\ (pc = "call" /\ call.fn = "normalize_text") => ENABLED CallNormalizeText
    /\ Returned("normalize_text") =>
           /\ \A i \in 1..Len(result) :
                  result[i] \in (IF call.flag THEN AZ ELSE AZ \cup AsciiDigits)
           /\ call.text = <<>> => result = <<>>
           /\ \A v \in Variants(call.text, call.flag) :
                  normalize_text(v, call.flag) = result

\* A text with a capital letter and a stripped character and a key that is
\* not empty.
C12_Witness ==
    /\ Returned("normalize_text")
    /\ result # <<>>
    /\ \E i, j \in 1..Len(call.text) :
           /\ call.text[i] \in UpperAZ \cup {"U+212A", "U+0130"}
           /\ call.text[j] \in StrippedCharacters(call.flag)

\* The characters that count as digits of a year: the decimal digits, of
\* ASCII or not.
DecimalDigits == AsciiDigits \cup {"U+0663"}

\* A separator, four digits and a separator start at position i of name.
RunInside(name, i) ==
    /\ i + 5 <= Len(name)
    /\ name[i] = "_"
    /\ \A k \in (i + 1)..(i + 4) : name[k] \in DecimalDigits
    /\ name[i + 5] = "_"

\* A separator and four digits start at position i of name and end it.
RunAtEnd(name, i) ==
    /\ i + 4 = Len(name)
    /\ name[i] = "_"
    /\ \A k \in (i + 1)..(i + 4) : name[k] \in DecimalDigits

\* The same, or a single newline follows the digits and ends the name.
RunAtEndOrBeforeNewline(name, i) ==
    \/ RunAtEnd(name, i)
    \/ /\ i + 5 = Len(name)
       /\ name[i + 5] = "\n"
       /\ RunAtEnd(SubSeq(name, 1, i + 4), i)

Leftmost(positions) == CHOOSE i \in positions : \A k \in positions : i <= k

\* C13 as stated: with has_year_pattern the result is the part of the name
\* before the leftmost separator-year-separator; without one, the part before
\* a separator-year that ends the name; else the name. Without
\* has_year_pattern it is the name.
C13_TitleIsPrefixBeforeYear ==
    Returned("extract_title_from_pdf_name") =>
        LET name == call.text
            inside == {i \in 1..Len(name) : RunInside(name, i)}
            at_end == {i \in 1..Len(name) : RunAtEnd(name, i)}
        IN  result = IF ~call.flag THEN name
                     ELSE IF inside # {} THEN SubSeq(name, 1, Leftmost(inside) - 1)
                     ELSE IF at_end # {} THEN SubSeq(name, 1, Leftmost(at_end) - 1)
                     ELSE name

\* What extract_title_from_pdf_name does instead (C13 with the $ of line 120):
\* a separator-year followed by one newline that ends the name counts as a
\* separator-year at the end of the name.
C13_TitleIsPrefixBeforeYearOrNewline ==
    Returned("extract_title_from_pdf_name") =>
        LET name == call.text
            inside == {i \in 1..Len(name) : RunInside(name, i)}
            at_end == {i \in 1..Len(name) : RunAtEndOrBeforeNewline(name, i)}
        IN  result = IF ~call.flag THEN name
                     ELSE IF inside # {} THEN SubSeq(name, 1, Leftmost(inside) - 1)
                     ELSE IF at_end # {} THEN SubSeq(name, 1, Leftmost(at_end) - 1)
                     ELSE name

\* A name with a title in front of a year between separators.
C13_TitleBeforeYearReached ==
    /\ Returned("extract_title_from_pdf_name")
    /\ call.flag
    /\ result # <<>>
    /\ \E i \in 1..Len(call.text) :
           RunInside(call.text, i) /\ result = SubSeq(call.text, 1, i - 1)

RegistrarPrefixes ==
    {<<"i", "s", "j", ".">>, <<"j", ".", "1", "3", "6", "5", "-", "2", "5", "7", "5">>}

Registrant == <<"1", "0", ".", "1", "1", "1", "1", "/">>

DigitsOf(text) == SelectSeq(text, LAMBDA c : c \in AsciiDigits)

\* C14: a name that starts with 'isj.' or 'j.1365-2575' gets '10.1111/' in
\* front, a name that starts with '10.' and every other name is returned as
\* it is; under DOI matching the key of a file with such a name is the
\* normalised text of the DOI '10.1111/' + name, digits kept in both, so the
\* file matches a row with that DOI.
C14_DoiOfFileName ==
    Returned("extract_doi_from_pdf_name") =>
        LET name == call.text
            known == \E p \in RegistrarPrefixes : IsPrefixOf(p, name)
        IN  /\ known => result = Registrant \o name
            /\ IsPrefixOf(<<"1", "0", ".">>, name) => result = name
            /\ ~known => result = name
            /\ known =>
                   \A special, year \in BOOLEAN :
                       LET key == MatchKey(name, TRUE, special, year)
                           row == RecordNormalized(Registrant \o name, TRUE)
                       IN  /\ KeyMatches(key, row)
                           /\ key = row
                           /\ DigitsOf(key) = DigitsOf(Registrant \o name)

\* A name 'isj.' with digits after it.
C14_Witness ==
    /\ Returned("extract_doi_from_pdf_name")
    /\ IsPrefixOf(<<"i", "s", "j", ".">>, call.text)
    /\ DigitsOf(call.text) # <<>>
    /\ result = Registrant \o call.text

HexCharacters ==
    {"0", "1", "2", "3", "4", "5", "6", "7", "8", "9",
     "a", "b", "c", "d", "e", "f", "A", "B", "C", "D", "E", "F"}

\* Positions a..e of text are '#x', one or more hex digits and ';'.
IsEncodingRun(text, a, e) ==
    /\ a + 3 <= e
    /\ e <= Len(text)
    /\ text[a] = "#"
    /\ text[a + 1] = "x"
    /\ text[e] = ";"
    /\ \A k \in (a + 2)..(e - 1) : text[k] \in HexCharacters

InEncodingRun(text, i) ==
    \E a \in 1..i : \E e \in i..Len(text) : IsEncodingRun(text, a, e)

\* The characters of text from position i on that are in no such run.
RECURSIVE OutsideRuns(_, _)
OutsideRuns(text, i) ==
    IF i > Len(text) THEN <<>>
    ELSE (IF InEncodingRun(text, i) THEN <<>> ELSE <<text[i]>>) \o OutsideRuns(text, i + 1)

\* C15: remove_isr_encoding returns the name without its runs of '#x', hex
\* digits and ';', every other character kept in place; the key of a file
\* name is made from the name without these runs, and the title is cut from
\* that, exactly when special encoding is on and the title is matched.
C15_EncodingRunsRemovedBeforeTitle ==
    Returned("remove_isr_encoding") =>
        /\ result = OutsideRuns(call.text, 1)
        /\ \A year \in BOOLEAN :
               /\ MatchKey(call.text, FALSE, TRUE, year)
                      = normalize_text(extract_title_from_pdf_name(result, year), TRUE)
               /\ MatchKey(call.text, FALSE, FALSE, year)
                      = normalize_text(extract_title_from_pdf_name(call.text, year), TRUE)
               /\ \A special \in BOOLEAN :
                      MatchKey(call.text, TRUE, special, year)
                          = normalize_text(extract_doi_from_pdf_name(call.text), FALSE)

\* A name whose year shows only after the run inside it is removed.
C15_Witness ==
    /\ Returned("remove_isr_encoding")
    /\ result # call.text
    /\ extract_title_from_pdf_name(call.text, TRUE) = call.text
    /\ extract_title_from_pdf_name(result, TRUE) # result
    /\ extract_title_from_pdf_name(result, TRUE) # <<>>

\* The position of the file with this path in the files of the call, and
\* the key of a file under title matching with the call's flag.
FilePosition(path) == CHOOSE i \in 1..Len(call.files) : call.files[i].path = path

CallFileKey(i) == MatchKey(call.files[i].name, FALSE, FALSE, call.flag)

\* The position of the first file with the key of file i.
FirstWithKey(i) ==
    CHOOSE k \in 1..i :
        /\ CallFileKey(k) = CallFileKey(i)
        /\ \A m \in 1..(k - 1) : CallFileKey(m) # CallFileKey(i)

\* C16: a second run of match_pdfs_to_records on the same files, rows and
\* flags returns what the first returned; the candidates of a multi-matched
\* row are listed key by key in the order in which the keys first occur in
\* the files, and the files of one key in the order of the files.
C16_SameResultAndCandidateOrder ==
    (call.fn = "match_pdfs_to_records" /\ pc = "returned_again") =>
        /\ result[2] = result[1]
        /\ \A m \in 1..Len(result[1].multi_matched) :
               LET paths == result[1].multi_matched[m].paths
               IN  \A a, b \in 1..Len(paths) :
                       a < b =>
                           LET i == FilePosition(paths[a])
                               j == FilePosition(paths[b])
                           IN  \/ FirstWithKey(i) < FirstWithKey(j)
                               \/ FirstWithKey(i) = FirstWithKey(j) /\ i < j

\* Three candidates, the second file's key between two files of another key.
C16_Witness ==
    /\ call.fn = "match_pdfs_to_records"
    /\ pc = "returned_again"
    /\ \E m \in 1..Len(result[1].multi_matched) :
           LET paths == result[1].multi_matched[m].paths
           IN  /\ Len(paths) = 3
               /\ FilePosition(paths[2]) = 3
               /\ FilePosition(paths[3]) = 2

\* The key by which check_duplicates_in_files groups file i of the call.
RawNameKey(i) == normalize_text(call.files[i].name, ~call.flag)

\* C17: check_duplicates_in_files reports the groups of files whose raw names
\* have the same normalised key (digits kept iff keep_numbers) that have two
\* or more files, each once and with the names of all its files, and no
\* other group.
C17_DuplicateGroupsExactlyReported ==
    Returned("check_duplicates_in_files") =>
        /\ \A g \in 1..Len(result) :
               /\ Len(result[g].items) >= 2
               /\ Range(result[g].items)
                      = {call.files[i].name :
                             i \in {k \in 1..Len(call.files) : RawNameKey(k) = result[g].key}}
               /\ Len(result[g].items) = Cardinality(Range(result[g].items))
               /\ \A h \in 1..Len(result) : h # g => result[h].key # result[g].key
        /\ \A i, j \in 1..Len(call.files) :
               (i # j /\ RawNameKey(i) = RawNameKey(j))
                   => \E g \in 1..Len(result) : result[g].key = RawNameKey(i)

\* Two names that differ in a digit only, reported when digits are dropped.
C17_Witness ==
    /\ Returned("check_duplicates_in_files")
    /\ ~call.flag
    /\ Len(result) = 1
    /\ Range(result[1].items) = {<<"a", "1", "b">>, <<"a", "2", "b">>}

HTTP_PREFIX == <<"h", "t", "t", "p">>

\* The positions of text that hold a character other than whitespace.
InkPositions(text) == {i \in 1..Len(text) : text[i] \notin Whitespace}

\* text without the whitespace before its first and after its last other
\* character.
Trimmed(text) ==
    IF InkPositions(text) = {} THEN <<>>
    ELSE LET first == CHOOSE i \in InkPositions(text) : \A k \in InkPositions(text) : i <= k
             last  == CHOOSE i \in InkPositions(text) : \A k \in InkPositions(text) : k <= i
         IN  SubSeq(text, first, last)

\* C18: the link of an identifier is the identifier itself when it is a full
\* link, empty when the identifier is empty or whitespace only, and
\* https://doi.org/ followed by the identifier otherwise.
C18_LinkOfIdentifier ==
    Returned("generate_doi_url") =>
        result = IF InkPositions(call.text) = {} THEN <<>>
                 ELSE IF StartsWith(call.text, HTTP_PREFIX) THEN call.text
                 ELSE DOI_ORG \o call.text

\* C18: the link of an identifier is a function of the identifier without its
\* surrounding whitespace: empty when nothing is left, that trimmed identifier
\* when it starts with the lower-case letters http, and https://doi.org/
\* followed by the trimmed identifier otherwise.
C18_LinkOfTrimmedIdentifier ==
    Returned("generate_doi_url") =>
        result = IF Trimmed(call.text) = <<>> THEN <<>>
                 ELSE IF StartsWith(Trimmed(call.text), HTTP_PREFIX) THEN Trimmed(call.text)
                 ELSE DOI_ORG \o Trimmed(call.text)

\* An identifier between whitespace that got the resolver in front of it.
C18_Witness ==
    /\ Returned("generate_doi_url")
    /\ call.text = <<" ", "1", "0", ".", "1", "\t">>
    /\ result = DOI_ORG \o <<"1", "0", ".", "1">>

\* C19: a journal whose dataset header lacks the match column of its profile
\* ends in an error: no row of it is classified (process_journal does not get
\* to its save step with such a header) and no unmatched partition is written
\* for it.
C19_MissingMatchColumnIsFatal ==
    /\ pc = "pj_save" => MatchColumn(pattern.use_doi) \in Range(headers)
    /\ \A f \in disk.unmatched : PartitionMatchColumn(f.journal) \in Range(f.headers)

\* The directory of the journal in process_journal could not be read to its
\* end.
DirectoryReadFailed == \E i \in 1..Len(directory) : directory[i].raises

\* C20: a journal whose load fails, in read_csv_records or while its
\* directory is read, writes nothing: the step that records its error and
\* every step of process_journal on it leave the partitions and the merged
\* tables as they are.
C20_FailedLoadWritesNothing ==
    [][(\/ DirectoryReadFailed
        \/ \E s \in all_stats' \ all_stats : s.status = "error") => disk' = disk]_vars

---------------------------------------------------------------------------
(* Properties of the steps of process_journal and main, checked under Spec. *)

\* The key of a raw name or value in the duplicate checks of a journal.
CollisionKey(text) == normalize_text(text, ~pattern.use_doi)

\* Two PDF files of the journal's directory have raw names with one key.
DirectoryCollision ==
    \E i, j \in DirectoryPdfs :
        i # j /\ CollisionKey(directory[i].stem) = CollisionKey(directory[j].stem)

\* Two entries of pdf_files have names with one key.
FileDictCollision ==
    \E i, j \in 1..Len(pdf_files) :
        i # j /\ CollisionKey(pdf_files[i].name) = CollisionKey(pdf_files[j].name)

\* Two rows have values of the match column with one key.
ColumnCollision ==
    \E i, j \in 1..Len(records) :
        /\ i # j
        /\ Get(records[i], MatchColumn(pattern.use_doi)) # <<>>
        /\ Get(records[j], MatchColumn(pattern.use_doi)) # <<>>
        /\ CollisionKey(Get(records[i], MatchColumn(pattern.use_doi)))
               = CollisionKey(Get(records[j], MatchColumn(pattern.use_doi)))

\* C21: in process_journal a collision among the PDF files of the journal or
\* among the values of its match column leads to the wait for the operator,
\* and matching is entered only from a check that found no collision or from
\* the operator's acknowledgment.
C21_CollisionsAcknowledgedBeforeMatch ==
    [][/\ (pc = "pj_check_files" /\ DirectoryCollision) => pc' = "pj_ack_files"
       /\ (pc = "pj_check_csv" /\ ColumnCollision) => pc' = "pj_ack_csv"
       /\ (pc' = "pj_check_csv" /\ pc # pc') => pc \in {"pj_check_files", "pj_ack_files"}
       /\ (pc' = "pj_match" /\ pc # pc') => pc \in {"pj_check_csv", "pj_ack_csv"}]_vars

\* The same for the collisions among the entries of pdf_files, the files that
\* get_pdf_files kept.
C21_KeptFilesCollisionsAcknowledged ==
    [][/\ (pc = "pj_check_files" /\ FileDictCollision) => pc' = "pj_ack_files"
       /\ (pc = "pj_check_csv" /\ ColumnCollision) => pc' = "pj_ack_csv"
       /\ (pc' = "pj_check_csv" /\ pc # pc') => pc \in {"pj_check_files", "pj_ack_files"}
       /\ (pc' = "pj_match" /\ pc # pc') => pc \in {"pj_check_csv", "pj_ack_csv"}]_vars

\* The rows of the partition file of a journal in a directory of disk d, none
\* when there is no such file.
PartitionRows(files, journal) ==
    IF \E f \in files : f.journal = journal
    THEN (CHOOSE f \in files : f.journal = journal).rows
    ELSE <<>>

\* A row of a partition without the columns that the save functions add.
LoadedColumns(row) == [c \in Range(headers) |-> Get(row, c)]

\* process_journal returns its stats in this step.
ReturnsNormally == \E s \in all_stats' \ all_stats : s.status = "ok"

\* C22: when process_journal returns normally, the partition files of the
\* journal hold as many rows as the dataset, every row of the dataset is in
\* one of them, and with no PDF file all rows are in the unmatched partition.
C22_EveryRowInOnePartition ==
    [][ReturnsNormally =>
          LET m == PartitionRows(disk'.matched, Journal)
              u == PartitionRows(disk'.unmatched, Journal)
              mm == PartitionRows(disk'.multi_matched, Journal)
          IN  /\ Len(m) + Len(u) + Len(mm) = Len(records)
              /\ \A idx \in 1..Len(records) :
                     LoadedColumns(records[idx])
                         \in {LoadedColumns(m[i]) : i \in 1..Len(m)}
                                 \cup {LoadedColumns(u[i]) : i \in 1..Len(u)}
                                 \cup {LoadedColumns(mm[i]) : i \in 1..Len(mm)}
              /\ pdf_files = <<>> => Len(u) = Len(records)]_vars

\* The same for the journals that have a PDF file.
C22_EveryRowInOnePartitionWhenFilesExist ==
    [][(ReturnsNormally /\ pdf_files # <<>>) =>
          LET m == PartitionRows(disk'.matched, Journal)
              u == PartitionRows(disk'.unmatched, Journal)
              mm == PartitionRows(disk'.multi_matched, Journal)
          IN  /\ Len(m) + Len(u) + Len(mm) = Len(records)
              /\ \A idx \in 1..Len(records) :
                     LoadedColumns(records[idx])
                         \in {LoadedColumns(m[i]) : i \in 1..Len(m)}
                                 \cup {LoadedColumns(u[i]) : i \in 1..Len(u)}
                                 \cup {LoadedColumns(mm[i]) : i \in 1..Len(mm)}]_vars

InProcessJournal ==
    pc \in {"pj_loaded", "pj_check_files", "pj_ack_files", "pj_check_csv", "pj_ack_csv",
            "pj_match", "pj_save", "pj_stats"}

InMerges == pc \in {"merge_matched", "merge_unmatched", "merge_multi_matched", "done"}

Partitions(d) == <<d.matched, d.unmatched, d.multi_matched>>

\* The phases of process_journal, in their order.
PhaseOf ==
    [p \in {"pj_loaded", "pj_check_files", "pj_ack_files", "pj_check_csv", "pj_ack_csv",
            "pj_match", "pj_save", "pj_stats"} |->
        CASE p = "pj_loaded" -> 1
          [] p \in {"pj_check_files", "pj_ack_files"} -> 2
          [] p \in {"pj_check_csv", "pj_ack_csv"} -> 3
          [] p = "pj_match" -> 4
          [] p = "pj_save" -> 5
          [] p = "pj_stats" -> 6]

\* C23: the journals are taken one after the other in the order of
\* journals_to_process, each going forward through load, duplicate checks,
\* match and save before the next is loaded; partition files are written
\* only by the save of the journal in process; the merges start after the
\* last journal, write the merged tables in the order matched, unmatched,
\* multi-matched and leave the partitions alone; matched_dois is collected
\* by the merge of the matched partitions and is what the merge of the
\* unmatched partitions excludes.
C23_JournalsInTurnThenMergesInOrder ==
    [][/\ InProcessJournal => ji <= Len(journals_to_process)
       /\ InMerges => ji > Len(journals_to_process)
       /\ ji' \in {ji, ji + 1}
       /\ ji' = ji + 1 => pc' = "main_loop" /\ records' = <<>>
       /\ (records' # records /\ records' # <<>>) => pc = "main_loop" /\ pc' = "pj_loaded"
       /\ (InProcessJournal /\ pc' \in DOMAIN PhaseOf) =>
              /\ ji' = ji
              /\ PhaseOf[pc'] \in {PhaseOf[pc], PhaseOf[pc] + 1}
       /\ (pc' = "pj_save" /\ pc # pc') => pc = "pj_match"
       /\ Partitions(disk') # Partitions(disk) =>
              /\ pc = "pj_save"
              /\ \A k \in {"matched", "unmatched", "multi_matched"} :
                     \A f \in disk'[k] \ disk[k] : f.journal = Journal
       /\ disk'.ALL_MATCHED # disk.ALL_MATCHED =>
              pc = "merge_matched" /\ pc' = "merge_unmatched"
       /\ matched_dois' # matched_dois =>
              /\ pc = "merge_matched"
              /\ matched_dois' = {Get(row, "DOI") : row \in Range(RowsOf(disk'.ALL_MATCHED))}
                                     \ {<<>>}
       /\ disk'.ALL_UNMATCHED # disk.ALL_UNMATCHED =>
              /\ pc = "merge_unmatched" /\ pc' = "merge_multi_matched"
              /\ \A row \in Range(RowsOf(disk'.ALL_UNMATCHED)) :
                     Get(row, "DOI") \notin matched_dois
       /\ disk'.ALL_MULTI_MATCHED # disk.ALL_MULTI_MATCHED =>
              pc = "merge_multi_matched" /\ pc' = "done"
       /\ (pc' = "merge_unmatched" /\ pc # pc') => pc = "merge_matched"
       /\ (pc' = "merge_multi_matched" /\ pc # pc') => pc = "merge_unmatched"
       /\ (pc' = "done" /\ pc # pc') => pc = "merge_multi_matched"]_vars

\* Two journals were processed and saved, and the three merged tables were
\* written, the unmatched one with DOIs excluded.
C23_Witness ==
    /\ pc = "done"
    /\ Len(journals_to_process) = 2
    /\ \A j \in Range(journals_to_process) :
           [journal |-> j, status |-> "ok"] \in all_stats
    /\ Cardinality(disk.unmatched) = 2
    /\ matched_dois # {}
    /\ disk.ALL_MATCHED # <<>>
    /\ disk.ALL_UNMATCHED # <<>>
    /\ disk.ALL_MULTI_MATCHED # <<>>

\* C24: no partition file has zero rows, and the save step of process_journal
\* writes the file of a result exactly when the result is not empty, with one
\* row for each of its entries, and leaves the directory of an empty result
\* as it is.
C24_NoEmptyPartitionWritten ==
    [][/\ \A k \in {"matched", "unmatched", "multi_matched"} :
              \A f \in disk[k] : f.rows # <<>>
       /\ pc = "pj_save" =>
              /\ IF matched = <<>> THEN disk'.matched = disk.matched
                 ELSE Len(PartitionRows(disk'.matched, Journal)) = Len(matched)
              /\ IF unmatched = <<>> THEN disk'.unmatched = disk.unmatched
                 ELSE Len(PartitionRows(disk'.unmatched, Journal)) = Len(unmatched)
              /\ IF multi_matched = <<>> THEN disk'.multi_matched = disk.multi_matched
                 ELSE Len(PartitionRows(disk'.multi_matched, Journal))
                          = Len(multi_matched)]_vars

\* A journal was saved with unmatched rows only: its unmatched partition is
\* there, the other two directories are empty.
C24_Witness ==
    /\ pc = "main_loop"
    /\ ji = 2
    /\ disk.unmatched # {}
    /\ disk.matched = {}
    /\ disk.multi_matched = {}

EntryMatchKey(i) ==
    MatchKey(pdf_files[i].name, pattern.use_doi, pattern.special_encoding, pattern.has_year)

\* C26: when check_duplicates_in_files reports no group for the files of a
\* journal, no two of the files have the same key in match_pdfs_to_records.
C26_NoReportedDuplicateNoSharedMatchKey ==
    (pc = "pj_match" /\ check_duplicates_in_files(pdf_files, pattern.use_doi) = <<>>) =>
        \A i, j \in 1..Len(pdf_files) : i # j => EntryMatchKey(i) # EntryMatchKey(j)

\* The rows of the unmatched partitions, in the order of the file names, that
\* have no DOI value.
UnmatchedRowsWithoutDoi ==
    LET parts == RowsInOrder(SortedFiles(disk.unmatched, KIND_UNMATCHED))
    IN  SelectSeq(parts, LAMBDA part : Get(part.row, "DOI") = <<>>)

\* The rows of ALL_UNMATCHED that come from rows without a DOI value: their
\* link, made from the DOI value of the partition row, is empty (the DOI
\* column itself is not written when the first partition file has none).
MergedRowsWithoutDoi ==
    SelectSeq(RowsOf(disk.ALL_UNMATCHED), LAMBDA row : Get(row, "DOI_Download_Link") = <<>>)

\* C27: of the rows of all unmatched partitions that have an empty DOI value
\* or no DOI column, ALL_UNMATCHED has the first in the order of the files
\* and no other; it has none when the partitions have none.
C27_OneRowWithoutDoiSurvives ==
    (pc = "done" /\ disk.unmatched # {}) =>
        IF UnmatchedRowsWithoutDoi = <<>> THEN MergedRowsWithoutDoi = <<>>
        ELSE MergedRowsWithoutDoi = <<AsUnmatchedRow(UnmatchedRowsWithoutDoi[1].row)>>

\* Two unmatched partitions have different rows without a DOI value, and
\* ALL_UNMATCHED has one row without a DOI value.
C27_Witness ==
    /\ pc = "done"
    /\ \E a, b \in 1..Len(UnmatchedRowsWithoutDoi) :
           /\ UnmatchedRowsWithoutDoi[a].journal # UnmatchedRowsWithoutDoi[b].journal
           /\ UnmatchedRowsWithoutDoi[a].row # UnmatchedRowsWithoutDoi[b].row
    /\ Len(MergedRowsWithoutDoi) = 1
    /\ Len(RowsOf(disk.ALL_UNMATCHED)) >= 2


---------------------------------------------------------------------------
(* MinerUAPIClient.wait_for_completion and wait_for_completion_sync: the   *)
(* polling loop, with a service that may answer anything.                  *)

MaxRetries == 3

MaxResults == 2

\* The names of the files of the batch.
FileNames == {"a.pdf", "b.pdf"}

\* result.get("file_name") of a result that has no file name.
NoFileName == ""

\* The states the service reports; "running" is not a value of TaskState.
ReportedStates == {"pending", "running", "done", "failed"}

\* One element of extract_result.
Results == [file_name : FileNames \cup {NoFileName}, state : ReportedStates]

\* class TaskState(Enum): the value of the enumeration for a state, or ValueError.
TaskState(state) ==
    IF state \in {"pending", "processing", "done", "failed"} THEN state ELSE "ValueError"

\* The loop over extract_results: the statuses after the results were recorded.
RECURSIVE RecordResults(_, _)
RecordResults(fs, extract_results) ==
    IF extract_results = <<>> THEN fs
    ELSE LET r == Head(extract_results)
             status == IF TaskState(r.state) = "ValueError" THEN "pending" ELSE TaskState(r.state)
         IN  IF r.file_name = NoFileName
             THEN RecordResults(fs, Tail(extract_results))
             ELSE RecordResults([n \in DOMAIN fs \cup {r.file_name} |->
                                    IF n = r.file_name THEN status ELSE fs[n]],
                                Tail(extract_results))

\* The loop over extract_results: all_done after the results were seen.
all_done(extract_results) ==
    \A i \in 1..Len(extract_results) :
        \/ extract_results[i].file_name = NoFileName
        \/ extract_results[i].state \in {"done", "failed"}

InitWait ==
    /\ pc = "wait_poll"
    /\ max_retries \in 1..MaxRetries
    /\ polls = 0
    /\ files_status = <<>>
    /\ status_info = NoStatusInfo
    /\ files_to_process = 0
    /\ batch_size = 0
    /\ batch_start = 0
    /\ task = <<>>
    /\ stats = [success |-> 0, failed |-> 0]
    /\ call = NoCall
    /\ result = <<>>
    /\ pattern = NoPattern
    /\ pdf_files = <<>>
    /\ records = <<>>
    /\ directory = <<>>
    /\ headers = <<>>
    /\ matched = <<>>
    /\ unmatched = <<>>
    /\ multi_matched = <<>>
    /\ journals_to_process = <<>>
    /\ ji = 0
    /\ doi_journals = {}
    /\ special_journals = {}
    /\ disk = NoDisk
    /\ all_stats = {}
    /\ matched_dois = {}

Pipeline ==
    <<journals_to_process, ji, doi_journals, special_journals, directory, records, headers,
      pdf_files, pattern, matched, unmatched, multi_matched, disk, all_stats, matched_dois>>

Batches == <<files_to_process, batch_size, batch_start, task, stats>>

\* One iteration of the loop whose status call raises: sleep, next iteration.
WaitStatusFails ==
    /\ pc = "wait_poll"
    /\ polls < max_retries
    /\ polls' = polls + 1
    /\ status_info' = [raised |-> TRUE, extract_result |-> <<>>]
    /\ UNCHANGED <<pc, max_retries, files_status, Batches, Pipeline, Calls>>

\* One iteration of the loop whose status call answers: the results are
\* recorded, and the loop is left when all_done and files_status are true.
WaitStatusAnswers ==
    /\ pc = "wait_poll"
    /\ polls < max_retries
    /\ \E n \in 0..MaxResults : \E extract_results \in [1..n -> Results] :
          /\ status_info' = [raised |-> FALSE, extract_result |-> extract_results]
          /\ files_status' = RecordResults(files_status, extract_results)
          /\ pc' = IF all_done(extract_results) /\ DOMAIN files_status' # {}
                   THEN "wait_break" ELSE "wait_poll"
    /\ polls' = polls + 1
    /\ UNCHANGED <<max_retries, Batches, Pipeline, Calls>>

\* The range of the loop is used up: the else branch of the loop.
WaitTimeout ==
    /\ pc = "wait_poll"
    /\ polls = max_retries
    /\ pc' = "wait_timeout"
    /\ UNCHANGED <<max_retries, polls, files_status, status_info, Batches, Pipeline, Calls>>

NextWait ==
    \/ WaitStatusFails
    \/ WaitStatusAnswers
    \/ WaitTimeout

SpecWait == InitWait /\ [][NextWait]_vars

\* The files with a name that the last status call reported.
ReportedFiles ==
    {i \in 1..Len(status_info.extract_result) :
        status_info.extract_result[i].file_name # NoFileName}

\* The loop was left by break after the last status call.
WaitReturnedEarly == pc = "wait_break"

\* C28 (first part): the loop makes at most max_retries status calls, and after
\* max_retries calls that did not end it the function returns.
C28_AtMostMaxRetriesPolls ==
    /\ polls <= max_retries
    /\ pc = "wait_timeout" => polls = max_retries

\* C28 (last part): a file whose last reported state is not a value of
\* TaskState has the status pending.
C28_UnknownStateKeptPending ==
    \A i \in ReportedFiles :
        LET r == status_info.extract_result[i]
        IN  (/\ r.state \notin {"pending", "processing", "done", "failed"}
             /\ \A j \in ReportedFiles :
                   j > i => status_info.extract_result[j].file_name # r.file_name)
            => files_status[r.file_name] = "pending"

\* C28: wait_for_completion makes at most max_retries status calls whatever the
\* service answers; it returns by break only after a status call that reported
\* at least one file and only files in state done or failed; a file reported in
\* an unknown state is kept as pending.
C28_EarlyReturnOnlyWhenAllReportedFinished ==
    /\ C28_AtMostMaxRetriesPolls
    /\ C28_UnknownStateKeptPending
    /\ WaitReturnedEarly =>
          /\ ReportedFiles # {}
          /\ \A i \in ReportedFiles : status_info.extract_result[i].state \in {"done", "failed"}

\* The early return that C28 excludes: the last status call reported no file,
\* and a file reported earlier is still pending.
C28_EarlyReturnWithPendingFile ==
    /\ WaitReturnedEarly
    /\ ReportedFiles = {}
    /\ \E n \in DOMAIN files_status : files_status[n] = "pending"


---------------------------------------------------------------------------
(* PDFBatchProcessor.process_all_sync and process_all_async: the files are  *)
(* converted one by one, or in batches of tasks that interleave at their    *)
(* awaits. What the client's process_file gives for a file is free.         *)

MaxBatchFiles == 3

MaxBatchSize == 2

\* A TaskResult as process_file leaves it: its status, and whether
\* download_and_extract put the converted result into the output directory.
TaskResults ==
    {[status |-> "done", extracted |-> TRUE], [status |-> "done", extracted |-> FALSE],
     [status |-> "failed", extracted |-> FALSE], [status |-> "pending", extracted |-> FALSE]}

\* process_file raises, or returns a BatchTaskInfo with the results of the file.
ProcessFileOutcomes ==
    {[raised |-> TRUE, results |-> <<>>]} \cup
    {[raised |-> FALSE, results |-> r] : r \in {<<>>} \cup {<<t>> : t \in TaskResults}}

\* A file that was not taken yet.
NoTask == [pc |-> "none", raised |-> FALSE, results |-> <<>>]

\* The loop over task_info.results: DONE counts as success, all else as failed.
RECURSIVE CountResults(_, _)
CountResults(st, results) ==
    IF results = <<>> THEN st
    ELSE CountResults(IF Head(results).status = "done"
                      THEN [st EXCEPT !.success = @ + 1]
                      ELSE [st EXCEPT !.failed = @ + 1],
                      Tail(results))

\* The body of the try statement for one file and its except branch.
CountOutcome(st, outcome) ==
    IF outcome.raised THEN [st EXCEPT !.failed = @ + 1] ELSE CountResults(st, outcome.results)

InitBatch ==
    /\ pc \in {"sync_loop", "batch_loop"}
    /\ files_to_process \in 1..MaxBatchFiles
    /\ batch_size \in 1..MaxBatchSize
    /\ pc = "sync_loop" => batch_size = 1
    /\ batch_start = 0
    /\ task = [i \in 1..files_to_process |-> NoTask]
    /\ stats = [success |-> 0, failed |-> 0]
    /\ max_retries = 0
    /\ polls = 0
    /\ files_status = <<>>
    /\ status_info = NoStatusInfo
    /\ call = NoCall
    /\ result = <<>>
    /\ pattern = NoPattern
    /\ pdf_files = <<>>
    /\ records = <<>>
    /\ directory = <<>>
    /\ headers = <<>>
    /\ matched = <<>>
    /\ unmatched = <<>>
    /\ multi_matched = <<>>
    /\ journals_to_process = <<>>
    /\ ji = 0
    /\ doi_journals = {}
    /\ special_journals = {}
    /\ disk = NoDisk
    /\ all_stats = {}
    /\ matched_dois = {}

Waiting == <<max_retries, polls, files_status, status_info>>

\* batch_files: the positions of the files of the batch that starts at batch_start.
CurrentBatch ==
    {i \in 1..files_to_process : batch_start < i /\ i <= batch_start + batch_size}

\* process_all_sync: one iteration of the loop over files_to_process.
ProcessNextSync ==
    /\ pc = "sync_loop"
    /\ batch_start < files_to_process
    /\ \E outcome \in ProcessFileOutcomes :
          /\ task' = [task EXCEPT ![batch_start + 1] =
                         [pc |-> "finished", raised |-> outcome.raised, results |-> outcome.results]]
          /\ stats' = CountOutcome(stats, outcome)
    /\ batch_start' = batch_start + 1
    /\ UNCHANGED <<pc, files_to_process, batch_size, Waiting, Pipeline, Calls>>

\* process_all_async: the coroutines of the next batch are made and handed to gather.
StartBatch ==
    /\ pc = "batch_loop"
    /\ batch_start < files_to_process
    /\ task' = [i \in 1..files_to_process |->
                   IF i \in CurrentBatch THEN [NoTask EXCEPT !.pc = "created"] ELSE task[i]]
    /\ pc' = "batch_gather"
    /\ UNCHANGED <<files_to_process, batch_size, batch_start, stats, Waiting, Pipeline, Calls>>

\* _process_single_file_async runs up to its await of process_file.
TaskStart(i) ==
    /\ pc = "batch_gather"
    /\ task[i].pc = "created"
    /\ task' = [task EXCEPT ![i].pc = "awaiting"]
    /\ UNCHANGED <<pc, files_to_process, batch_size, batch_start, stats, Waiting, Pipeline, Calls>>

\* process_file returns or raises; the task counts and ends without another await.
TaskResume(i) ==
    /\ pc = "batch_gather"
    /\ task[i].pc = "awaiting"
    /\ \E outcome \in ProcessFileOutcomes :
          /\ task' = [task EXCEPT ![i] =
                         [pc |-> "finished", raised |-> outcome.raised, results |-> outcome.results]]
          /\ stats' = CountOutcome(stats, outcome)
    /\ UNCHANGED <<pc, files_to_process, batch_size, batch_start, Waiting, Pipeline, Calls>>

\* A gather that returns when the first of its tasks has ended.
BatchFinished_FirstCompleted(ts, batch) == \E i \in batch : ts[i].pc = "finished"

\* await asyncio.gather(*tasks, return_exceptions=True): all tasks have ended.
BatchFinished(ts, batch) == \A i \in batch : ts[i].pc = "finished"

\* gather returns; the loop takes the next batch_start.
GatherReturns ==
    /\ pc = "batch_gather"
    /\ BatchFinished(task, CurrentBatch)
    /\ batch_start' = batch_start + batch_size
    /\ pc' = "batch_loop"
    /\ UNCHANGED <<files_to_process, batch_size, task, stats, Waiting, Pipeline, Calls>>

\* The loop over the files is used up: the statistics are returned.
ProcessAllReturns ==
    /\ pc \in {"sync_loop", "batch_loop"}
    /\ batch_start >= files_to_process
    /\ pc' = IF pc = "sync_loop" THEN "sync_done" ELSE "async_done"
    /\ UNCHANGED <<Batches, Waiting, Pipeline, Calls>>

NextBatch ==
    \/ ProcessNextSync
    \/ StartBatch
    \/ \E i \in 1..files_to_process : TaskStart(i)
    \/ \E i \in 1..files_to_process : TaskResume(i)
    \/ GatherReturns
    \/ ProcessAllReturns

SpecBatch == InitBatch /\ [][NextBatch]_vars

\* The files whose conversion has ended.
FinishedFiles == {i \in DOMAIN task : task[i].pc = "finished"}

\* The files whose converted result is in their output directory.
ExtractedFiles ==
    {i \in FinishedFiles : \E k \in DOMAIN task[i].results : task[i].results[k].extracted}

\* The files whose conversion was done, but whose download or extraction failed.
DownloadFailedFiles ==
    {i \in FinishedFiles :
        \E k \in DOMAIN task[i].results :
            task[i].results[k].status = "done" /\ ~task[i].results[k].extracted}

\* C29: only files whose converted result was downloaded and extracted are
\* counted in stats['success'], and every file whose download or extraction
\* failed is counted in stats['failed'].
C29_SuccessOnlyWhenExtracted ==
    /\ stats.success <= Cardinality(ExtractedFiles)
    /\ stats.failed >= Cardinality(DownloadFailedFiles)

\* The count that C29 excludes: every file is counted as a success although
\* the result of one of them never reached its output directory.
C29_FailedDownloadCountedAsSuccess ==
    /\ pc \in {"sync_done", "async_done"}
    /\ DownloadFailedFiles # {}
    /\ stats.success = files_to_process
    /\ stats.failed = 0

InAsync == pc \in {"batch_loop", "batch_gather", "async_done"}

\* The batch of the file at position i.
BatchOf(i) == (i - 1) \div batch_size

\* The files whose task was made and has not ended.
InProgress == {i \in DOMAIN task : task[i].pc \in {"created", "awaiting"}}

\* The results that the tasks counted as success, and the tasks and results
\* that were counted as failed.
CountedSuccess ==
    {i \in FinishedFiles : \E k \in DOMAIN task[i].results : task[i].results[k].status = "done"}

CountedFailed ==
    {i \in FinishedFiles :
        \/ task[i].raised
        \/ \E k \in DOMAIN task[i].results : task[i].results[k].status # "done"}

\* C30: in process_all_async at most batch_size files are in progress, no file
\* of a later batch is started before every file of the earlier batches has
\* ended, a task that ends with an exception stops neither the other tasks nor
\* the later batches, and every task's update of the counters is in stats
\* exactly once.
C30_BatchesInTurnAndNoLostUpdate ==
    InAsync =>
        /\ Cardinality(InProgress) <= batch_size
        /\ \A i, j \in DOMAIN task :
              (BatchOf(i) < BatchOf(j) /\ task[j].pc # "none") => task[i].pc = "finished"
        /\ pc = "async_done" => FinishedFiles = DOMAIN task
        /\ stats.success = Cardinality(CountedSuccess)
        /\ stats.failed = Cardinality(CountedFailed)

\* Three files in batches of two have all ended: the first task of the first
\* batch ended with an exception, the second with a success, and the file of
\* the second batch was converted after them and failed.
C30_Witness ==
    /\ pc = "async_done"
    /\ batch_size = 2
    /\ files_to_process = 3
    /\ task[1].raised
    /\ task[2].results = <<[status |-> "done", extracted |-> TRUE]>>
    /\ task[3].results = <<[status |-> "failed", extracted |-> FALSE]>>
    /\ stats = [success |-> 1, failed |-> 2]

====
